---- MODULE Spec2Model ----
(***************************************************************************)
(* The event log store of the relay agent (HyperlaneRocksDB): message,     *)
(* gas-payment and merkle-insertion ingestion over a typed key-value       *)
(* store, modelled from rust/hyperlane-base/src/db/rocks/hyperlane_db.rs.  *)
(*                                                                         *)
(* The physical store is `db`: for every column prefix, the map from the   *)
(* encoded key to the stored cell.  A cell keeps the type its bytes were   *)
(* encoded from, so that a read through an accessor of another value type  *)
(* is a decode of foreign bytes and not a read of the value.               *)
(***************************************************************************)
EXTENDS Integers, Sequences, FiniteSets, TLC

VARIABLES
    db,         \* the key-value substrate: column prefix -> (key -> cell)
    lastOp,     \* the last completed call: its name, arguments and result
    pc,         \* concurrent writers: the position of each inside its call
    call,       \* concurrent writers: the arguments of the call in progress
    local,      \* concurrent writers: the locals of the call in progress
    submitted,  \* the processing keys of the gas payment logs handed to the store
    server,     \* the metrics server: its registry and the requests it was sent
    poll        \* the assert_poll call in progress: its arguments, loop counter and evaluations of f

vars == <<db, lastOp, pc, call, local, submitted, server, poll>>

----------------------------------------------------------------------------
(* Bounds of the model. *)

MaxNonce == 2       \* message nonces are 0..MaxNonce
MaxBlock == 2       \* block numbers are 1..MaxBlock
MaxLog == 2         \* on-chain log coordinates (transaction, log index) are 1..MaxLog
MaxAmount == 2      \* a payment's token amount is 1..MaxAmount
MaxSeq == 0         \* gas payment sequence numbers are 0..MaxSeq
MaxLeaf == 2        \* merkle leaf indices are 0..MaxLeaf
MaxMsgId == 2       \* message ids named by payments and insertions are 1..MaxMsgId
NumWorkers == 2     \* concurrent writers are 1..NumWorkers

Nonces == 0..MaxNonce
Bodies == {1, 2}            \* two messages may carry one nonce
NumBodies == Cardinality(Bodies)
Blocks == 1..MaxBlock
Logs == 1..MaxLog
Amounts == 1..MaxAmount
Seqs == 0..MaxSeq
Leaves == 0..MaxLeaf
MsgIds == 1..MaxMsgId
Workers == 1..NumWorkers
Destinations == {1, 2}
GasUnits == {1}
PaidMsgIds == {1}

----------------------------------------------------------------------------
(* Column prefixes. *)

MESSAGE_ID == "message_id_"
MESSAGE_DISPATCHED_BLOCK_NUMBER == "message_dispatched_block_number_"
MESSAGE == "message_"
GAS_PAYMENT_BY_SEQUENCE == "gas_payment_by_sequence_"
HIGHEST_SEEN_MESSAGE_NONCE == "highest_seen_message_nonce_"
GAS_PAYMENT_FOR_MESSAGE_ID == "gas_payment_sequence_for_message_id_v2_"
GAS_PAYMENT_META_PROCESSED == "gas_payment_meta_processed_v3_"
MERKLE_TREE_INSERTION == "merkle_tree_insertion_"
MERKLE_LEAF_INDEX_BY_MESSAGE_ID == "merkle_leaf_index_by_message_id_"
MERKLE_TREE_INSERTION_BLOCK_NUMBER_BY_LEAF_INDEX == "merkle_tree_insertion_block_number_by_leaf_index_"

GAS_EXPENDITURE_FOR_MESSAGE_ID == "gas_expenditure_for_message_id_v2_"
NONCE_PROCESSED == "nonce_processed_"
STATUS_BY_MESSAGE_ID == "status_by_message_id_"
PENDING_MESSAGE_RETRY_COUNT_FOR_MESSAGE_ID == "pending_message_retry_count_for_message_id_"

\* The key of the gas payment watermark, stored under the empty prefix.
LATEST_INDEXED_GAS_PAYMENT_BLOCK == "latest_indexed_gas_payment_block"
NO_PREFIX == ""

Prefixes ==
    { MESSAGE_ID, MESSAGE_DISPATCHED_BLOCK_NUMBER, MESSAGE, GAS_PAYMENT_BY_SEQUENCE,
      HIGHEST_SEEN_MESSAGE_NONCE, GAS_PAYMENT_FOR_MESSAGE_ID, GAS_PAYMENT_META_PROCESSED,
      MERKLE_TREE_INSERTION, MERKLE_LEAF_INDEX_BY_MESSAGE_ID,
      MERKLE_TREE_INSERTION_BLOCK_NUMBER_BY_LEAF_INDEX, NO_PREFIX,
      GAS_EXPENDITURE_FOR_MESSAGE_ID, NONCE_PROCESSED, STATUS_BY_MESSAGE_ID,
      PENDING_MESSAGE_RETRY_COUNT_FOR_MESSAGE_ID }

----------------------------------------------------------------------------
(* Option and Result values. *)

NoneV == [tag |-> "None"]
Some(v) == [tag |-> "Some", val |-> v]
ErrV == [tag |-> "Err"]
Ok(v) == [tag |-> "Ok", val |-> v]

\* Option::unwrap_or
unwrap_or(opt, default) == IF opt.tag = "Some" THEN opt.val ELSE default

----------------------------------------------------------------------------
(* The typed store: encode on write, decode on read. *)

\* The number of bytes a value of each type encodes to.
EncodedLen(ty) ==
    CASE ty = "bool" -> 1
      [] ty = "u32" -> 4
      [] ty = "u64" -> 8
      [] ty = "H256" -> 32
      [] ty = "MerkleTreeInsertion" -> 36
      [] ty = "InterchainGasPaymentData" -> 64
      [] ty = "InterchainGasExpenditureData" -> 64
      [] ty = "InterchainGasPayment" -> 100
      [] ty = "HyperlaneMessage" -> 77

\* The value the leading bytes of a longer encoding decode to: a value of the
\* requested type that is not the value stored.
LeadingBytes(ty, cell) == [foreign |-> cell.ty, as |-> ty]

\* Decode a stored cell as a value of type ty: the value itself when the cell was
\* encoded from that type, an error when the bytes run out, and otherwise what
\* the leading bytes happen to hold.
Decode(ty, cell) ==
    IF cell.ty = ty THEN Ok(Some(cell.val))
    ELSE IF EncodedLen(cell.ty) < EncodedLen(ty) THEN ErrV
    ELSE Ok(Some(LeadingBytes(ty, cell)))

\* TypedDB::store_keyed_encodable: one atomic put of the encoded value.
store_keyed_encodable(d, prefix, key, ty, val) ==
    [d EXCEPT ![prefix] =
        [k \in (DOMAIN d[prefix]) \cup {key} |->
            IF k = key THEN [ty |-> ty, val |-> val] ELSE d[prefix][k]]]

\* TypedDB::retrieve_keyed_decodable: one atomic get, then the decode.
retrieve_keyed_decodable(d, prefix, key, ty) ==
    IF key \in DOMAIN d[prefix] THEN Decode(ty, d[prefix][key]) ELSE Ok(NoneV)

----------------------------------------------------------------------------
(* The accessor pairs make_store_and_retrieve! generates. *)

store_message_id_by_nonce(d, key, val) ==
    store_keyed_encodable(d, MESSAGE_ID, key, "H256", val)
retrieve_message_id_by_nonce(d, key) ==
    retrieve_keyed_decodable(d, MESSAGE_ID, key, "H256")

store_message_by_id(d, key, val) ==
    store_keyed_encodable(d, MESSAGE, key, "HyperlaneMessage", val)
retrieve_message_by_id(d, key) ==
    retrieve_keyed_decodable(d, MESSAGE, key, "HyperlaneMessage")

store_dispatched_block_number_by_nonce(d, key, val) ==
    store_keyed_encodable(d, MESSAGE_DISPATCHED_BLOCK_NUMBER, key, "u64", val)
retrieve_dispatched_block_number_by_nonce(d, key) ==
    retrieve_keyed_decodable(d, MESSAGE_DISPATCHED_BLOCK_NUMBER, key, "u64")

store_highest_seen_message_nonce_number(d, key, val) ==
    store_keyed_encodable(d, HIGHEST_SEEN_MESSAGE_NONCE, key, "u32", val)
retrieve_highest_seen_message_nonce_number(d, key) ==
    retrieve_keyed_decodable(d, HIGHEST_SEEN_MESSAGE_NONCE, key, "u32")

store_processed_by_gas_payment_meta(d, key, val) ==
    store_keyed_encodable(d, GAS_PAYMENT_META_PROCESSED, key, "bool", val)
retrieve_processed_by_gas_payment_meta(d, key) ==
    retrieve_keyed_decodable(d, GAS_PAYMENT_META_PROCESSED, key, "bool")

store_interchain_gas_payment_data_by_gas_payment_key(d, key, val) ==
    store_keyed_encodable(d, GAS_PAYMENT_FOR_MESSAGE_ID, key, "InterchainGasPaymentData", val)
retrieve_interchain_gas_payment_data_by_gas_payment_key(d, key) ==
    retrieve_keyed_decodable(d, GAS_PAYMENT_FOR_MESSAGE_ID, key, "InterchainGasPaymentData")

store_gas_payment_by_sequence(d, key, val) ==
    store_keyed_encodable(d, GAS_PAYMENT_BY_SEQUENCE, key, "InterchainGasPayment", val)
retrieve_gas_payment_by_sequence(d, key) ==
    retrieve_keyed_decodable(d, GAS_PAYMENT_BY_SEQUENCE, key, "InterchainGasPayment")

store_gas_payment_block_by_sequence(d, key, val) ==
    store_keyed_encodable(d, GAS_PAYMENT_BY_SEQUENCE, key, "u64", val)
retrieve_gas_payment_block_by_sequence(d, key) ==
    retrieve_keyed_decodable(d, GAS_PAYMENT_BY_SEQUENCE, key, "u64")

store_merkle_tree_insertion_by_leaf_index(d, key, val) ==
    store_keyed_encodable(d, MERKLE_TREE_INSERTION, key, "MerkleTreeInsertion", val)
retrieve_merkle_tree_insertion_by_leaf_index(d, key) ==
    retrieve_keyed_decodable(d, MERKLE_TREE_INSERTION, key, "MerkleTreeInsertion")

store_merkle_leaf_index_by_message_id(d, key, val) ==
    store_keyed_encodable(d, MERKLE_LEAF_INDEX_BY_MESSAGE_ID, key, "u32", val)
retrieve_merkle_leaf_index_by_message_id(d, key) ==
    retrieve_keyed_decodable(d, MERKLE_LEAF_INDEX_BY_MESSAGE_ID, key, "u32")

store_merkle_tree_insertion_block_number_by_leaf_index(d, key, val) ==
    store_keyed_encodable(d, MERKLE_TREE_INSERTION_BLOCK_NUMBER_BY_LEAF_INDEX, key, "u64", val)
retrieve_merkle_tree_insertion_block_number_by_leaf_index(d, key) ==
    retrieve_keyed_decodable(d, MERKLE_TREE_INSERTION_BLOCK_NUMBER_BY_LEAF_INDEX, key, "u64")

----------------------------------------------------------------------------
(* The values the store is handed. *)

\* HyperlaneMessage: the nonce, and the rest of its content.
HyperlaneMessages == [nonce : Nonces, body : Bodies]

\* HyperlaneMessage::id: the digest of all the fields of the message.
MessageId(message) == <<message.nonce, message.body>>

\* The block a log sits in: the logs are spread over the blocks in turn.
BlockOfLog(l) == ((l - 1) % MaxBlock) + 1

\* LogMeta: the coordinates of a log in the chain, and the block it sits in.
LogMetas == {[block_number |-> BlockOfLog(l), log |-> l] : l \in Logs}

\* InterchainGasPaymentMeta::from(&LogMeta): the processing key keeps the
\* coordinates (transaction id, log index) and drops the block number.
PaymentMetaOf(log_meta) == log_meta.log

InterchainGasPayments ==
    [message_id : PaidMsgIds, destination : Destinations, payment : Amounts, gas_amount : GasUnits]

\* Indexed<InterchainGasPayment>: the payment and its optional sequence number.
IndexedGasPayments ==
    [inner : InterchainGasPayments, sequence : {NoneV} \cup {Some(s) : s \in Seqs}]

\* GasPaymentKey::from(InterchainGasPayment)
GasPaymentKeyOf(event) == [message_id |-> event.message_id, destination |-> event.destination]

GasPaymentKeys == [message_id : PaidMsgIds, destination : Destinations]

\* InterchainGasPayment::from_gas_payment_key: the zero total of a key.
from_gas_payment_key(key) ==
    [message_id |-> key.message_id, destination |-> key.destination,
     payment |-> 0, gas_amount |-> 0]

\* InterchainGasPayment + InterchainGasPayment (both of the same key).
AddPayments(a, b) ==
    [message_id |-> a.message_id, destination |-> a.destination,
     payment |-> a.payment + b.payment, gas_amount |-> a.gas_amount + b.gas_amount]

\* InterchainGasPaymentData::from(InterchainGasPayment): the two totals alone.
PaymentDataOf(p) == [payment |-> p.payment, gas_amount |-> p.gas_amount]

\* InterchainGasPaymentData::complete
complete(data, message_id, destination) ==
    [message_id |-> message_id, destination |-> destination,
     payment |-> data.payment, gas_amount |-> data.gas_amount]

\* MerkleTreeInsertion: index() and message_id().
MerkleTreeInsertions == [leaf_index : Leaves, message_id : MsgIds]

----------------------------------------------------------------------------
(* Message ingestion.  Every handler is a function of the store: it yields  *)
(* the store it leaves and the result it returns.                           *)

\* HyperlaneRocksDB::retrieve_highest_seen_message_nonce
retrieve_highest_seen_message_nonce(d) ==
    retrieve_highest_seen_message_nonce_number(d, FALSE)

\* try_update_max_seen_message_nonce without the comparison: the cursor follows
\* the last nonce stored.
try_update_last_seen_message_nonce(d, nonce) ==
    [db |-> store_highest_seen_message_nonce_number(d, FALSE, nonce), ret |-> Ok(TRUE)]

\* HyperlaneRocksDB::try_update_max_seen_message_nonce
try_update_max_seen_message_nonce(d, nonce) ==
    LET cur == retrieve_highest_seen_message_nonce(d) IN
    IF cur.tag = "Err" THEN [db |-> d, ret |-> ErrV]
    ELSE LET current_max == unwrap_or(cur.val, 0) IN
         IF nonce >= current_max
         THEN [db |-> store_highest_seen_message_nonce_number(d, FALSE, nonce), ret |-> Ok(TRUE)]
         ELSE [db |-> d, ret |-> Ok(TRUE)]

\* store_message without the lookup of the nonce: every call writes.
store_message_unchecked(d, message, dispatched_block_number) ==
    LET id == MessageId(message)
        d1 == store_message_by_id(d, id, message)
        d2 == store_message_id_by_nonce(d1, message.nonce, id)
        r3 == try_update_max_seen_message_nonce(d2, message.nonce)
        d4 == store_dispatched_block_number_by_nonce(
                  r3.db, message.nonce, dispatched_block_number)
    IN [db |-> d4, ret |-> Ok(TRUE)]

\* store_message looking the message up by its id instead of its nonce: another
\* message of the same nonce is taken for new.
store_message_by_id_lookup(d, message, dispatched_block_number) ==
    LET id == MessageId(message)
        found == retrieve_message_by_id(d, id) IN
    IF found.tag = "Ok" /\ found.val.tag = "Some"
    THEN [db |-> d, ret |-> Ok(FALSE)]
    ELSE store_message_unchecked(d, message, dispatched_block_number)

\* HyperlaneRocksDB::store_message
store_message(d, message, dispatched_block_number) ==
    LET found == retrieve_message_id_by_nonce(d, message.nonce) IN
    IF found.tag = "Ok" /\ found.val.tag = "Some"
    THEN [db |-> d, ret |-> Ok(FALSE)]
    ELSE LET id == MessageId(message)
             d1 == store_message_by_id(d, id, message)
             d2 == store_message_id_by_nonce(d1, message.nonce, id)
             r3 == try_update_max_seen_message_nonce(d2, message.nonce)
             d4 == store_dispatched_block_number_by_nonce(
                       r3.db, message.nonce, dispatched_block_number)
         IN IF r3.ret.tag = "Err" THEN r3 ELSE [db |-> d4, ret |-> Ok(TRUE)]

\* HyperlaneRocksDB::retrieve_message_by_nonce
retrieve_message_by_nonce(d, nonce) ==
    LET id == retrieve_message_id_by_nonce(d, nonce) IN
    IF id.tag = "Err" THEN ErrV
    ELSE IF id.val.tag = "None" THEN Ok(NoneV)
    ELSE retrieve_message_by_id(d, id.val.val)

\* HyperlaneLogStore<HyperlaneMessage>::store_logs: the messages of the batch in
\* order, counting the ones newly stored; the first error ends the batch.
RECURSIVE store_logs_messages(_, _, _)
store_logs_messages(d, messages, stored) ==
    IF messages = <<>> THEN [db |-> d, ret |-> Ok(stored)]
    ELSE LET rest(r) ==
                 IF r.ret.tag = "Err" THEN r
                 ELSE store_logs_messages(r.db, Tail(messages),
                                          IF r.ret.val THEN stored + 1 ELSE stored)
         IN CHOOSE out \in {rest(r) : r \in {store_message(
                                 d, Head(messages).message,
                                 Head(messages).meta.block_number)}} : TRUE

----------------------------------------------------------------------------
(* Gas payment ingestion. *)

\* HyperlaneRocksDB::retrieve_gas_payment_by_gas_payment_key
retrieve_gas_payment_by_gas_payment_key(d, gas_payment_key) ==
    LET data == retrieve_interchain_gas_payment_data_by_gas_payment_key(d, gas_payment_key) IN
    IF data.tag = "Err" THEN ErrV
    ELSE IF data.val.tag = "None" THEN Ok(NoneV)
    ELSE Ok(Some(complete(data.val.val, gas_payment_key.message_id,
                          gas_payment_key.destination)))

\* update_gas_payment_by_gas_payment_key storing the event in place of the sum.
overwrite_gas_payment_by_gas_payment_key(d, event) ==
    [db |-> store_interchain_gas_payment_data_by_gas_payment_key(
                d, GasPaymentKeyOf(event), PaymentDataOf(event)),
     ret |-> Ok(TRUE)]

\* HyperlaneRocksDB::update_gas_payment_by_gas_payment_key
update_gas_payment_by_gas_payment_key(d, event) ==
    LET gas_payment_key == GasPaymentKeyOf(event)
        existing == retrieve_gas_payment_by_gas_payment_key(d, gas_payment_key)
    IN  IF existing.tag = "Err" THEN [db |-> d, ret |-> ErrV]
        ELSE LET existing_payment ==
                     IF existing.val.tag = "Some" THEN existing.val.val
                     ELSE from_gas_payment_key(gas_payment_key)
                 total == AddPayments(existing_payment, event)
             IN [db |-> store_interchain_gas_payment_data_by_gas_payment_key(
                            d, gas_payment_key, PaymentDataOf(total)),
                 ret |-> Ok(TRUE)]

\* process_gas_payment without the lookup of the processing key.
process_gas_payment_unchecked(d, payment, log_meta) ==
    LET d1 == store_processed_by_gas_payment_meta(d, PaymentMetaOf(log_meta), TRUE)
        r2 == update_gas_payment_by_gas_payment_key(d1, payment)
    IN [db |-> r2.db, ret |-> Ok(TRUE)]

\* HyperlaneRocksDB::process_gas_payment
process_gas_payment(d, payment, log_meta) ==
    LET payment_meta == PaymentMetaOf(log_meta)
        processed == retrieve_processed_by_gas_payment_meta(d, payment_meta)
    IN  IF processed.tag = "Err" THEN [db |-> d, ret |-> ErrV]
        ELSE IF unwrap_or(processed.val, FALSE) THEN [db |-> d, ret |-> Ok(FALSE)]
        ELSE LET d1 == store_processed_by_gas_payment_meta(d, payment_meta, TRUE)
                 r2 == update_gas_payment_by_gas_payment_key(d1, payment)
             IN IF r2.ret.tag = "Err" THEN r2 ELSE [db |-> r2.db, ret |-> Ok(TRUE)]

\* process_indexed_gas_payment taking a missing sequence number for the default
\* one, 0, instead of returning early.
process_indexed_gas_payment_default_sequence(d, indexed_payment, log_meta) ==
    LET payment == indexed_payment.inner
        r1 == process_gas_payment(d, payment, log_meta)
        gas_payment_sequence == unwrap_or(indexed_payment.sequence, 0)
        found == retrieve_gas_payment_by_sequence(r1.db, gas_payment_sequence)
    IN  IF found.tag = "Ok" /\ found.val.tag = "Some"
        THEN [db |-> r1.db, ret |-> Ok(FALSE)]
        ELSE LET d2 == store_gas_payment_by_sequence(r1.db, gas_payment_sequence, payment)
                 d3 == store_gas_payment_block_by_sequence(
                           d2, gas_payment_sequence, log_meta.block_number)
             IN [db |-> d3, ret |-> r1.ret]

\* HyperlaneRocksDB::process_indexed_gas_payment
process_indexed_gas_payment(d, indexed_payment, log_meta) ==
    LET payment == indexed_payment.inner
        r1 == process_gas_payment(d, payment, log_meta)
    IN  IF r1.ret.tag = "Err" THEN r1
        ELSE IF indexed_payment.sequence.tag = "None" THEN r1
        ELSE LET gas_payment_sequence == indexed_payment.sequence.val
                 found == retrieve_gas_payment_by_sequence(r1.db, gas_payment_sequence)
             IN IF found.tag = "Ok" /\ found.val.tag = "Some"
                THEN [db |-> r1.db, ret |-> Ok(FALSE)]
                ELSE LET d2 == store_gas_payment_by_sequence(
                                   r1.db, gas_payment_sequence, payment)
                         d3 == store_gas_payment_block_by_sequence(
                                   d2, gas_payment_sequence, log_meta.block_number)
                     IN [db |-> d3, ret |-> r1.ret]

\* HyperlaneSequenceAwareIndexerStoreReader<InterchainGasPayment>
gas_retrieve_by_sequence(d, sequence) == retrieve_gas_payment_by_sequence(d, sequence)

gas_retrieve_log_block_number_by_sequence(d, sequence) ==
    retrieve_gas_payment_block_by_sequence(d, sequence)

----------------------------------------------------------------------------
(* Merkle insertion ingestion. *)

\* process_tree_insertion taking an insertion for stored when its message id, not
\* its leaf index, is known.
process_tree_insertion_by_message_id(d, insertion, insertion_block_number) ==
    LET found == retrieve_merkle_leaf_index_by_message_id(d, insertion.message_id) IN
    IF found.tag = "Ok" /\ found.val.tag = "Some"
    THEN [db |-> d, ret |-> Ok(FALSE)]
    ELSE LET d1 == store_merkle_tree_insertion_by_leaf_index(
                       d, insertion.leaf_index, insertion)
             d2 == store_merkle_leaf_index_by_message_id(
                       d1, insertion.message_id, insertion.leaf_index)
             d3 == store_merkle_tree_insertion_block_number_by_leaf_index(
                       d2, insertion.leaf_index, insertion_block_number)
         IN [db |-> d3, ret |-> Ok(TRUE)]

\* HyperlaneRocksDB::process_tree_insertion
process_tree_insertion(d, insertion, insertion_block_number) ==
    LET found == retrieve_merkle_tree_insertion_by_leaf_index(d, insertion.leaf_index) IN
    IF found.tag = "Ok" /\ found.val.tag = "Some"
    THEN [db |-> d, ret |-> Ok(FALSE)]
    ELSE LET d1 == store_merkle_tree_insertion_by_leaf_index(
                       d, insertion.leaf_index, insertion)
             d2 == store_merkle_leaf_index_by_message_id(
                       d1, insertion.message_id, insertion.leaf_index)
             d3 == store_merkle_tree_insertion_block_number_by_leaf_index(
                       d2, insertion.leaf_index, insertion_block_number)
         IN [db |-> d3, ret |-> Ok(TRUE)]

----------------------------------------------------------------------------
(* The state machine: one action per call of the store, applied whole. *)

EmptyColumn == [k \in {} |-> NoneV]

\* The store runs without a metrics server.
NoServer == [registry |-> {}, running |-> FALSE, responses |-> <<>>]

\* No assert_poll call has been made.
NoPoll == [pc |-> "idle"]

Init ==
    /\ db = [p \in Prefixes |-> EmptyColumn]
    /\ lastOp = [op |-> "none"]
    /\ pc = [w \in Workers |-> "idle"]
    /\ call = [w \in Workers |-> NoneV]
    /\ local = [w \in Workers |-> NoneV]
    /\ submitted = {}
    /\ server = NoServer
    /\ poll = NoPoll

\* The dispatch logs the indexer reads off the chain, in chain order: every
\* message in every block, the messages of one nonce side by side.  The log at
\* position i has the coordinates i.
MessageStreamLen == MaxBlock * (MaxNonce + 1) * NumBodies
MessageStream ==
    [i \in 1..MessageStreamLen |->
        [message |-> [nonce |-> ((i - 1) \div NumBodies) % (MaxNonce + 1),
                      body |-> ((i - 1) % NumBodies) + 1],
         meta |-> [block_number |-> ((i - 1) \div (NumBodies * (MaxNonce + 1))) + 1,
                   log |-> i]]]

\* The batches store_logs is handed: a range of up to MaxBatch consecutive logs.
MaxBatch == 2
MessageBatches ==
    UNION {{SubSeq(MessageStream, i, i + n - 1) : i \in 1..(MessageStreamLen - n + 1)} :
              n \in 0..MaxBatch}

StoreMessage(message, dispatched_block_number) ==
    LET r == store_message(db, message, dispatched_block_number) IN
    /\ db' = r.db
    /\ lastOp' = [op |-> "store_message", block |-> dispatched_block_number, ret |-> r.ret]
    /\ UNCHANGED <<pc, call, local, submitted, server, poll>>

StoreLogsMessages(messages) ==
    LET r == store_logs_messages(db, messages, 0) IN
    /\ db' = r.db
    /\ lastOp' = [op |-> "store_logs", ret |-> r.ret]
    /\ UNCHANGED <<pc, call, local, submitted, server, poll>>

ProcessGasPayment(payment, log_meta) ==
    LET r == process_gas_payment(db, payment, log_meta) IN
    /\ db' = r.db
    /\ lastOp' = [op |-> "process_gas_payment", sequence |-> NoneV, ret |-> r.ret]
    /\ submitted' = submitted \cup {PaymentMetaOf(log_meta)}
    /\ UNCHANGED <<pc, call, local, server, poll>>

ProcessIndexedGasPayment(indexed_payment, log_meta) ==
    LET r == process_indexed_gas_payment(db, indexed_payment, log_meta) IN
    /\ db' = r.db
    /\ lastOp' = [op |-> "process_indexed_gas_payment",
                  sequence |-> indexed_payment.sequence, ret |-> r.ret]
    /\ submitted' = submitted \cup {PaymentMetaOf(log_meta)}
    /\ UNCHANGED <<pc, call, local, server, poll>>

ProcessTreeInsertion(insertion, insertion_block_number) ==
    LET r == process_tree_insertion(db, insertion, insertion_block_number) IN
    /\ db' = r.db
    /\ lastOp' = [op |-> "process_tree_insertion", message_id |-> insertion.message_id,
                  ret |-> r.ret]
    /\ UNCHANGED <<pc, call, local, submitted, server, poll>>

\* The calls of the message driver.
NextMsg ==
    \/ \E m \in HyperlaneMessages, b \in Blocks : StoreMessage(m, b)
    \/ \E batch \in MessageBatches : StoreLogsMessages(batch)

\* The calls of the gas payment driver.
NextGas ==
    \/ \E p \in InterchainGasPayments, lm \in LogMetas : ProcessGasPayment(p, lm)
    \/ \E ip \in IndexedGasPayments, lm \in LogMetas : ProcessIndexedGasPayment(ip, lm)

\* The calls of the merkle insertion driver.
NextMerkle ==
    \E ins \in MerkleTreeInsertions, b \in Blocks : ProcessTreeInsertion(ins, b)

\* One driver alone: the drivers of the other event kinds write other columns.
SpecMsg == Init /\ [][NextMsg]_vars
SpecGas == Init /\ [][NextGas]_vars
SpecMerkle == Init /\ [][NextMerkle]_vars

----------------------------------------------------------------------------
(* What the store holds, as its readers see it. *)

\* The nonces with a recorded nonce -> id entry.
StoredNonces(d) == DOMAIN d[MESSAGE_ID]

\* The greatest element of a non-empty set of numbers.
MaxOf(S) == CHOOSE x \in S : \A y \in S : y <= x

----------------------------------------------------------------------------
(* Message ingestion: the claims. *)

\* C1: for every message m and block numbers b, b2, from a store in which
\* m.nonce is not recorded, store_message(m, b) returns true and records b as
\* the dispatched block number, and a following store_message(m, b2) returns
\* false and leaves the whole store as it was (block number, nonce -> id,
\* id -> message and the highest-seen-nonce cursor).
C1_IdempotentMessageStorage ==
    \A m \in HyperlaneMessages, b \in Blocks :
        retrieve_message_id_by_nonce(db, m.nonce) = Ok(NoneV) =>
            LET r1 == store_message(db, m, b) IN
            /\ r1.ret = Ok(TRUE)
            /\ retrieve_dispatched_block_number_by_nonce(r1.db, m.nonce) = Ok(Some(b))
            /\ \A b2 \in Blocks :
                   LET r2 == store_message(r1.db, m, b2) IN
                   /\ r2.ret = Ok(FALSE)
                   /\ r2.db = r1.db

\* C1 happens: one nonce is recorded, and the last call, a store_message with
\* another block number than the recorded one, returned false.
C1_Witness ==
    /\ lastOp.op = "store_message"
    /\ lastOp.ret = Ok(FALSE)
    /\ \E n \in Nonces :
           /\ StoredNonces(db) = {n}
           /\ retrieve_dispatched_block_number_by_nonce(db, n) # Ok(Some(lastOp.block))

\* C9: the highest-seen-nonce cursor is absent exactly when no message is
\* stored, is otherwise the greatest nonce stored, and no store_message call
\* lowers it.
C9_HighestSeenNonceIsMax ==
    LET cur == retrieve_highest_seen_message_nonce(db) IN
    /\ cur = IF StoredNonces(db) = {} THEN Ok(NoneV)
             ELSE Ok(Some(MaxOf(StoredNonces(db))))
    /\ \A m \in HyperlaneMessages, b \in Blocks :
           LET next == retrieve_highest_seen_message_nonce(store_message(db, m, b).db) IN
           /\ next.tag = "Ok" /\ next.val.tag = "Some"
           /\ cur.val.tag = "Some" => next.val.val >= cur.val.val

\* C9 happens: a lower nonce was stored after the highest one (it is the one
\* whose block number the last, successful, call carried), and the cursor is
\* still the highest.
C9_Witness ==
    /\ lastOp.op = "store_message"
    /\ lastOp.ret = Ok(TRUE)
    /\ StoredNonces(db) = Nonces
    /\ retrieve_highest_seen_message_nonce(db) = Ok(Some(MaxNonce))
    /\ retrieve_dispatched_block_number_by_nonce(db, MaxNonce) # Ok(Some(lastOp.block))

\* C10: once a nonce has an id and an id has a message, no store_message or
\* store_logs call changes either.
C10_FirstWriterWins ==
    [][ /\ \A n \in StoredNonces(db) :
               retrieve_message_id_by_nonce(db', n) = retrieve_message_id_by_nonce(db, n)
        /\ \A x \in DOMAIN db[MESSAGE] :
               retrieve_message_by_id(db', x) = retrieve_message_by_id(db, x) ]_vars

\* C10 happens: every nonce is recorded and a batch whose logs were all
\* duplicates has just been turned down.
C10_Witness ==
    /\ lastOp.op = "store_logs"
    /\ lastOp.ret = Ok(0)
    /\ StoredNonces(db) = Nonces

----------------------------------------------------------------------------
(* Gas payment ingestion: the claims. *)

\* The cumulative total of a gas payment key, the zero total when none is stored.
TotalOrZero(d, key) ==
    LET t == retrieve_gas_payment_by_gas_payment_key(d, key) IN
    IF t.tag = "Ok" /\ t.val.tag = "Some" THEN t.val.val ELSE from_gas_payment_key(key)

\* Whether a processing key is marked processed.
Processed(d, payment_meta) ==
    retrieve_processed_by_gas_payment_meta(d, payment_meta) = Ok(Some(TRUE))

C3_GasPaymentDuplicateSuppression ==
    \A lm \in LogMetas :
        PaymentMetaOf(lm) \in submitted =>
            \A p \in InterchainGasPayments :
                LET r == process_gas_payment(db, p, lm) IN
                /\ r.ret = Ok(FALSE)
                /\ r.db = db

\* C3 happens: the last call, a process_gas_payment of an already processed
\* log, returned false, and a total is stored.
C3_Witness ==
    /\ lastOp.op = "process_gas_payment"
    /\ lastOp.ret = Ok(FALSE)
    /\ submitted # {}
    /\ \E key \in GasPaymentKeys : TotalOrZero(db, key).payment > 0

\* Whether a sequence number has an entry in the sequence-keyed column.
SequenceRecorded(d, sequence) == sequence \in DOMAIN d[GAS_PAYMENT_BY_SEQUENCE]

\* C5: after process_indexed_gas_payment(p, meta) for a payment with a sequence
\* number s not recorded before, retrieve_by_sequence(s) is Some(p) and
\* retrieve_log_block_number_by_sequence(s) is Some(meta.block_number).
C5_SequenceReadBack ==
    [][ \A ip \in IndexedGasPayments, lm \in LogMetas :
            ( /\ ip.sequence.tag = "Some"
              /\ ~SequenceRecorded(db, ip.sequence.val)
              /\ ProcessIndexedGasPayment(ip, lm) ) =>
                /\ gas_retrieve_by_sequence(db', ip.sequence.val) = Ok(Some(ip.inner))
                /\ gas_retrieve_log_block_number_by_sequence(db', ip.sequence.val)
                       = Ok(Some(lm.block_number)) ]_vars

\* C6: process_indexed_gas_payment with a sequence number that is already
\* recorded returns false and leaves the sequence-keyed entries as they are.
C6_SequenceDuplicateRejected ==
    [][ \A ip \in IndexedGasPayments, lm \in LogMetas :
            ( /\ ip.sequence.tag = "Some"
              /\ SequenceRecorded(db, ip.sequence.val)
              /\ ProcessIndexedGasPayment(ip, lm) ) =>
                /\ lastOp'.ret = Ok(FALSE)
                /\ db'[GAS_PAYMENT_BY_SEQUENCE] = db[GAS_PAYMENT_BY_SEQUENCE] ]_vars

\* C7: process_indexed_gas_payment of a payment without a sequence number does
\* what process_gas_payment does and returns what it returns: a payment under a
\* new processing key is added to the total of its key; and it writes no
\* sequence-keyed entry, so both sequence readers answer as before for every
\* sequence number.
C7_NoSequenceNoIndex ==
    \A p \in InterchainGasPayments, lm \in LogMetas :
        LET r == process_indexed_gas_payment(db, [inner |-> p, sequence |-> NoneV], lm)
            g == process_gas_payment(db, p, lm)
            key == GasPaymentKeyOf(p)
        IN  /\ r.ret = g.ret
            /\ r.db = g.db
            /\ ~Processed(db, PaymentMetaOf(lm)) =>
                   /\ r.ret = Ok(TRUE)
                   /\ retrieve_gas_payment_by_gas_payment_key(r.db, key)
                          = Ok(Some(AddPayments(TotalOrZero(db, key), p)))
            /\ \A s \in Seqs :
                   /\ gas_retrieve_by_sequence(r.db, s) = gas_retrieve_by_sequence(db, s)
                   /\ gas_retrieve_log_block_number_by_sequence(r.db, s)
                          = gas_retrieve_log_block_number_by_sequence(db, s)

\* C7 happens: a payment without a sequence number has just been added to a
\* total, and no sequence number has an entry.
C7_Witness ==
    /\ lastOp.op = "process_indexed_gas_payment"
    /\ lastOp.sequence = NoneV
    /\ lastOp.ret = Ok(TRUE)
    /\ \E key \in GasPaymentKeys : TotalOrZero(db, key).payment > 0
    /\ \A s \in Seqs : gas_retrieve_by_sequence(db, s) = Ok(NoneV)

----------------------------------------------------------------------------
(* Merkle insertion ingestion: the claims. *)

\* The leaf indices with a stored insertion.
StoredLeaves(d) == DOMAIN d[MERKLE_TREE_INSERTION]

\* C8: for every leaf index i, a process_tree_insertion call for i while i has
\* no stored insertion returns true and stores the insertion and its block
\* number; every call for i from then on, with the same or another message id
\* or block number, returns false and leaves the whole store as it is
\* (leaf_index -> insertion, leaf_index -> block_number and the
\* message_id -> leaf_index index, also for the new message id).
C8_MerkleInsertionUniqueness ==
    \A ins \in MerkleTreeInsertions, b \in Blocks :
        LET r == process_tree_insertion(db, ins, b) IN
        IF ins.leaf_index \in StoredLeaves(db)
        THEN /\ r.ret = Ok(FALSE)
             /\ r.db = db
        ELSE /\ r.ret = Ok(TRUE)
             /\ retrieve_merkle_tree_insertion_by_leaf_index(r.db, ins.leaf_index)
                    = Ok(Some(ins))
             /\ retrieve_merkle_tree_insertion_block_number_by_leaf_index(
                    r.db, ins.leaf_index) = Ok(Some(b))
             /\ \A id2 \in MsgIds, b2 \in Blocks :
                    LET r2 == process_tree_insertion(
                                  r.db, [leaf_index |-> ins.leaf_index, message_id |-> id2], b2)
                    IN  /\ r2.ret = Ok(FALSE)
                        /\ r2.db = r.db

\* C8 happens: one leaf index has a stored insertion, and the last call, with
\* another message id than the stored one, returned false and left the
\* message_id -> leaf_index index without an entry for its message id.
C8_Witness ==
    /\ lastOp.op = "process_tree_insertion"
    /\ lastOp.ret = Ok(FALSE)
    /\ \E i \in Leaves :
           /\ StoredLeaves(db) = {i}
           /\ db[MERKLE_TREE_INSERTION][i].val.message_id # lastOp.message_id
    /\ retrieve_merkle_leaf_index_by_message_id(db, lastOp.message_id) = Ok(NoneV)

----------------------------------------------------------------------------
(* Concurrent gas payment writers.  The handlers take no lock and every     *)
(* access of the store is one atomic get or put, so the calls of two        *)
(* writers interleave between any two accesses.  Each step below is one     *)
(* access of process_indexed_gas_payment and the handlers it calls.         *)

\* The gas payment the chain emitted in log l: every writer that presents the
\* log presents this payment.
EmittedPayment(l) ==
    [message_id |-> 1, destination |-> 1 + (((l - 1) \div 2) % 2),
     payment |-> 1 + ((l - 1) % MaxAmount), gas_amount |-> 1]

\* The call returns: the writer is idle again.
Return(w, ret) ==
    /\ pc' = [pc EXCEPT ![w] = "idle"]
    /\ call' = [call EXCEPT ![w] = NoneV]
    /\ local' = [local EXCEPT ![w] = NoneV]
    /\ lastOp' = [op |-> "process_indexed_gas_payment",
                  sequence |-> call[w].sequence, ret |-> ret]

\* process_gas_payment has returned gas_processing_successful: return it when
\* the payment has no sequence number, and go on to the sequence lookup otherwise.
AfterGasPayment(w, gas_processing_successful) ==
    IF call[w].sequence.tag = "None"
    THEN Return(w, Ok(gas_processing_successful))
    ELSE /\ pc' = [pc EXCEPT ![w] = "seq_lookup"]
         /\ local' = [local EXCEPT ![w] = [gas |-> gas_processing_successful]]
         /\ UNCHANGED <<call, lastOp, server, poll>>

\* A writer is handed the log l and its payment, with or without a sequence number.
Call(w, l, sequence) ==
    /\ pc[w] = "idle"
    /\ pc' = [pc EXCEPT ![w] = "meta_lookup"]
    /\ call' = [call EXCEPT ![w] =
                   [payment |-> EmittedPayment(l), sequence |-> sequence,
                    meta |-> [block_number |-> BlockOfLog(l), log |-> l]]]
    /\ submitted' = submitted \cup {l}
    /\ UNCHANGED <<db, lastOp, local, server, poll>>

\* process_gas_payment: the lookup of the processing key.
MetaLookup(w) ==
    /\ pc[w] = "meta_lookup"
    /\ LET processed ==
               retrieve_processed_by_gas_payment_meta(db, PaymentMetaOf(call[w].meta))
       IN  IF unwrap_or(processed.val, FALSE)
           THEN AfterGasPayment(w, FALSE)
           ELSE /\ pc' = [pc EXCEPT ![w] = "meta_store"]
                /\ UNCHANGED <<call, local, lastOp, server, poll>>
    /\ UNCHANGED <<db, submitted, server, poll>>

\* process_gas_payment: the processing key is marked processed.
MetaStore(w) ==
    /\ pc[w] = "meta_store"
    /\ db' = store_processed_by_gas_payment_meta(db, PaymentMetaOf(call[w].meta), TRUE)
    /\ pc' = [pc EXCEPT ![w] = "total_read"]
    /\ UNCHANGED <<call, local, lastOp, submitted, server, poll>>

\* update_gas_payment_by_gas_payment_key: the read of the existing total.
TotalRead(w) ==
    /\ pc[w] = "total_read"
    /\ LET gas_payment_key == GasPaymentKeyOf(call[w].payment)
           existing == retrieve_gas_payment_by_gas_payment_key(db, gas_payment_key)
       IN  local' = [local EXCEPT ![w] =
                        [existing_payment |->
                            IF existing.val.tag = "Some" THEN existing.val.val
                            ELSE from_gas_payment_key(gas_payment_key)]]
    /\ pc' = [pc EXCEPT ![w] = "total_write"]
    /\ UNCHANGED <<db, call, lastOp, submitted, server, poll>>

\* update_gas_payment_by_gas_payment_key: the write of the new total, after
\* which process_gas_payment returns true.
TotalWrite(w) ==
    /\ pc[w] = "total_write"
    /\ LET total == AddPayments(local[w].existing_payment, call[w].payment) IN
       db' = store_interchain_gas_payment_data_by_gas_payment_key(
                 db, GasPaymentKeyOf(call[w].payment), PaymentDataOf(total))
    /\ AfterGasPayment(w, TRUE)
    /\ UNCHANGED <<submitted, server, poll>>

\* process_indexed_gas_payment: the lookup of the sequence number.
SeqLookup(w) ==
    /\ pc[w] = "seq_lookup"
    /\ LET found == retrieve_gas_payment_by_sequence(db, call[w].sequence.val) IN
       IF found.tag = "Ok" /\ found.val.tag = "Some"
       THEN Return(w, Ok(FALSE))
       ELSE /\ pc' = [pc EXCEPT ![w] = "seq_store"]
            /\ UNCHANGED <<call, local, lastOp, server, poll>>
    /\ UNCHANGED <<db, submitted, server, poll>>

\* process_indexed_gas_payment: sequence -> payment is written.
SeqStore(w) ==
    /\ pc[w] = "seq_store"
    /\ db' = store_gas_payment_by_sequence(db, call[w].sequence.val, call[w].payment)
    /\ pc' = [pc EXCEPT ![w] = "seq_block_store"]
    /\ UNCHANGED <<call, local, lastOp, submitted, server, poll>>

\* process_indexed_gas_payment: sequence -> block number is written, and the
\* call returns what process_gas_payment returned.
SeqBlockStore(w) ==
    /\ pc[w] = "seq_block_store"
    /\ db' = store_gas_payment_block_by_sequence(
                 db, call[w].sequence.val, call[w].meta.block_number)
    /\ Return(w, Ok(local[w].gas))
    /\ UNCHANGED <<submitted, server, poll>>

\* The writer's process restarts in the middle of a call: what it wrote stays.
Restart(w) ==
    /\ pc[w] # "idle"
    /\ pc' = [pc EXCEPT ![w] = "idle"]
    /\ call' = [call EXCEPT ![w] = NoneV]
    /\ local' = [local EXCEPT ![w] = NoneV]
    /\ UNCHANGED <<db, lastOp, submitted, server, poll>>

NextGasConc ==
    \E w \in Workers :
        \/ \E l \in Logs, sequence \in {NoneV} \cup {Some(q) : q \in Seqs} :
               Call(w, l, sequence)
        \/ MetaLookup(w)
        \/ MetaStore(w)
        \/ TotalRead(w)
        \/ TotalWrite(w)
        \/ SeqLookup(w)
        \/ SeqStore(w)
        \/ SeqBlockStore(w)
        \/ Restart(w)

SpecGasConc == Init /\ [][NextGasConc]_vars

\* The sum of the token amounts of the payments emitted in a set of logs.
RECURSIVE SumOfPayments(_)
SumOfPayments(logs) ==
    IF logs = {} THEN 0
    ELSE LET l == CHOOSE x \in logs : TRUE IN
         EmittedPayment(l).payment + SumOfPayments(logs \ {l})

\* C4: under every interleaving of concurrent writers and restarts, the total
\* stored for a gas payment key is at most the sum of the amounts of the
\* distinct logs presented for that key: no payment is counted twice.
C4_NeverDoubleCounts ==
    \A key \in GasPaymentKeys :
        TotalOrZero(db, key).payment
            <= SumOfPayments({l \in submitted : GasPaymentKeyOf(EmittedPayment(l)) = key})

----------------------------------------------------------------------------
(* High watermarks. *)

MaxWatermark == 6
Watermarks == 0..MaxWatermark

\* eyre's bail!: an error that carries its message.
Bail(msg) == [tag |-> "Err", msg |-> msg]

\* TypedDB::store_encodable / retrieve_decodable: the accessors of a string key.
store_encodable(d, prefix, key, ty, val) == store_keyed_encodable(d, prefix, key, ty, val)
retrieve_decodable(d, prefix, key, ty) == retrieve_keyed_decodable(d, prefix, key, ty)

\* HyperlaneWatermarkedLogStore<InterchainGasPayment>
gas_retrieve_high_watermark(d) ==
    retrieve_decodable(d, NO_PREFIX, LATEST_INDEXED_GAS_PAYMENT_BLOCK, "u32")

gas_store_high_watermark(d, block_number) ==
    [db |-> store_encodable(d, NO_PREFIX, LATEST_INDEXED_GAS_PAYMENT_BLOCK, "u32", block_number),
     ret |-> Ok(TRUE)]

\* HyperlaneWatermarkedLogStore<HyperlaneMessage>
message_retrieve_high_watermark(d) == Bail("Not implemented")

\* message_store_high_watermark, had it been given the gas payment body.
message_store_high_watermark_implemented(d, block_number) ==
    gas_store_high_watermark(d, block_number)

message_store_high_watermark(d, block_number) ==
    [db |-> d, ret |-> Bail("Not implemented")]

\* HyperlaneWatermarkedLogStore<MerkleTreeInsertion>
merkle_retrieve_high_watermark(d) == Bail("Not implemented")

merkle_store_high_watermark(d, block_number) ==
    [db |-> d, ret |-> Bail("Not implemented")]

GasRetrieveHighWatermark ==
    /\ lastOp' = [op |-> "gas_retrieve_high_watermark", ret |-> gas_retrieve_high_watermark(db)]
    /\ UNCHANGED <<db, pc, call, local, submitted, server, poll>>

GasStoreHighWatermark(block_number) ==
    LET r == gas_store_high_watermark(db, block_number) IN
    /\ db' = r.db
    /\ lastOp' = [op |-> "gas_store_high_watermark", ret |-> r.ret]
    /\ UNCHANGED <<pc, call, local, submitted, server, poll>>

MessageRetrieveHighWatermark ==
    /\ lastOp' = [op |-> "message_retrieve_high_watermark",
                  ret |-> message_retrieve_high_watermark(db)]
    /\ UNCHANGED <<db, pc, call, local, submitted, server, poll>>

MessageStoreHighWatermark(block_number) ==
    LET r == message_store_high_watermark(db, block_number) IN
    /\ db' = r.db
    /\ lastOp' = [op |-> "message_store_high_watermark", block |-> block_number, ret |-> r.ret]
    /\ UNCHANGED <<pc, call, local, submitted, server, poll>>

MerkleRetrieveHighWatermark ==
    /\ lastOp' = [op |-> "merkle_retrieve_high_watermark",
                  ret |-> merkle_retrieve_high_watermark(db)]
    /\ UNCHANGED <<db, pc, call, local, submitted, server, poll>>

MerkleStoreHighWatermark(block_number) ==
    LET r == merkle_store_high_watermark(db, block_number) IN
    /\ db' = r.db
    /\ lastOp' = [op |-> "merkle_store_high_watermark", block |-> block_number, ret |-> r.ret]
    /\ UNCHANGED <<pc, call, local, submitted, server, poll>>

\* The watermark calls of the three drivers.
NextWatermark ==
    \/ GasRetrieveHighWatermark
    \/ \E b \in Watermarks : GasStoreHighWatermark(b)
    \/ MessageRetrieveHighWatermark
    \/ \E b \in Watermarks : MessageStoreHighWatermark(b)
    \/ MerkleRetrieveHighWatermark
    \/ \E b \in Watermarks : MerkleStoreHighWatermark(b)

SpecWatermark == Init /\ [][NextWatermark]_vars

\* C11: the gas payment watermark never decreases: once retrieve_high_watermark
\* returns a block number, no call makes it return a lower one.
C11_WatermarkNeverDecreases ==
    [][ LET before == gas_retrieve_high_watermark(db)
            after == gas_retrieve_high_watermark(db')
        IN  (before.tag = "Ok" /\ before.val.tag = "Some") =>
                /\ after.tag = "Ok" /\ after.val.tag = "Some"
                /\ after.val.val >= before.val.val ]_vars

\* C12: for messages and merkle insertions both watermark operations return
\* an error and change nothing, in every state; for gas payments the watermark
\* reads as absent, not as an error, until a store_high_watermark call, and
\* reads as Some(b) after store_high_watermark(b).
C12_UnsupportedIsNotAbsent ==
    /\ gas_retrieve_high_watermark(db) = Ok(NoneV)
    /\ [](/\ message_retrieve_high_watermark(db).tag = "Err"
          /\ merkle_retrieve_high_watermark(db).tag = "Err"
          /\ \A b \in Watermarks :
                /\ message_store_high_watermark(db, b).ret.tag = "Err"
                /\ message_store_high_watermark(db, b).db = db
                /\ merkle_store_high_watermark(db, b).ret.tag = "Err"
                /\ merkle_store_high_watermark(db, b).db = db
                /\ gas_store_high_watermark(db, b).ret.tag = "Ok"
                /\ gas_retrieve_high_watermark(gas_store_high_watermark(db, b).db)
                       = Ok(Some(b)))
    /\ [][ /\ lastOp'.op # "gas_store_high_watermark" => db' = db
           /\ lastOp'.op \in {"message_store_high_watermark", "message_retrieve_high_watermark",
                              "merkle_store_high_watermark", "merkle_retrieve_high_watermark"}
                  => lastOp'.ret.tag = "Err" ]_vars

\* A message watermark call has failed while the gas payment watermark is set.
C12_Witness ==
    /\ lastOp.op = "message_store_high_watermark"
    /\ lastOp.ret = Bail("Not implemented")
    /\ gas_retrieve_high_watermark(db) = Ok(Some(1))

----------------------------------------------------------------------------
(* Batch ingestion of gas payments and merkle insertions. *)

\* store_and_count_new, with the process it is called with,
\* process_indexed_gas_payment: the logs in order, counting the new ones; the
\* first error ends the batch.
RECURSIVE store_and_count_new(_, _, _)
store_and_count_new(d, logs, new_logs) ==
    IF logs = <<>> THEN [db |-> d, ret |-> Ok(new_logs)]
    ELSE LET rest(r) ==
                 IF r.ret.tag = "Err" THEN r
                 ELSE store_and_count_new(r.db, Tail(logs),
                                          IF r.ret.val THEN new_logs + 1 ELSE new_logs)
         IN CHOOSE out \in {rest(r) : r \in {process_indexed_gas_payment(
                                 d, Head(logs).payment, Head(logs).meta)}} : TRUE

\* store_logs of gas payments returning the length of the batch.
store_logs_gas_payments_counting_all(d, payments) ==
    [db |-> store_and_count_new(d, payments, 0).db, ret |-> Ok(Len(payments))]

\* HyperlaneLogStore<InterchainGasPayment>::store_logs
store_logs_gas_payments(d, payments) == store_and_count_new(d, payments, 0)

\* HyperlaneLogStore<MerkleTreeInsertion>::store_logs
RECURSIVE store_logs_insertions(_, _, _)
store_logs_insertions(d, leaves, insertions) ==
    IF leaves = <<>> THEN [db |-> d, ret |-> Ok(insertions)]
    ELSE LET rest(r) ==
                 IF r.ret.tag = "Err" THEN r
                 ELSE store_logs_insertions(r.db, Tail(leaves),
                                            IF r.ret.val THEN insertions + 1 ELSE insertions)
         IN CHOOSE out \in {rest(r) : r \in {process_tree_insertion(
                                 d, Head(leaves).insertion,
                                 Head(leaves).meta.block_number)}} : TRUE

\* The sequences of at most n elements of S.
RECURSIVE SeqsUpTo(_, _)
SeqsUpTo(S, n) ==
    IF n = 0 THEN {<<>>}
    ELSE LET shorter == SeqsUpTo(S, n - 1) IN
         shorter \cup {Append(q, x) : q \in shorter, x \in S}

\* The gas payment logs the indexer reads off the chain: log l carries the
\* payment emitted in it, odd logs with a sequence number and even logs without.
GasPaymentStream ==
    [l \in Logs |->
        [payment |-> [inner |-> EmittedPayment(l),
                      sequence |-> IF l % 2 = 1 THEN Some((l \div 2) % (MaxSeq + 1))
                                   ELSE NoneV],
         meta |-> [block_number |-> BlockOfLog(l), log |-> l]]]

\* The batches the gas payment store_logs is handed: up to MaxBatch logs, in any
\* order, a log possibly more than once.
GasPaymentBatches == SeqsUpTo({GasPaymentStream[l] : l \in Logs}, MaxBatch)

\* The insertion logs of the chain: the leaf indexes in order, one message each.
InsertionStream ==
    [i \in 1..(MaxLeaf + 1) |->
        [insertion |-> [leaf_index |-> i - 1, message_id |-> i % (MaxMsgId + 1)],
         meta |-> [block_number |-> BlockOfLog(i), log |-> i]]]

InsertionBatches == SeqsUpTo({InsertionStream[i] : i \in 1..(MaxLeaf + 1)}, MaxBatch)

StoreLogsGasPayments(payments) ==
    LET r == store_logs_gas_payments(db, payments) IN
    /\ db' = r.db
    /\ lastOp' = [op |-> "store_logs_gas_payments", len |-> Len(payments), ret |-> r.ret]
    /\ submitted' = submitted \cup {PaymentMetaOf(payments[j].meta) : j \in 1..Len(payments)}
    /\ UNCHANGED <<pc, call, local, server, poll>>

StoreLogsInsertions(leaves) ==
    LET r == store_logs_insertions(db, leaves, 0) IN
    /\ db' = r.db
    /\ lastOp' = [op |-> "store_logs_insertions", len |-> Len(leaves), ret |-> r.ret]
    /\ UNCHANGED <<pc, call, local, submitted, server, poll>>

\* One indexer alone, of whichever event kind, handing batches to store_logs.
NextLogs ==
    \/ /\ lastOp.op \in {"none", "store_logs"}
       /\ \E batch \in MessageBatches : StoreLogsMessages(batch)
    \/ /\ lastOp.op \in {"none", "store_logs_gas_payments"}
       /\ \E batch \in GasPaymentBatches : StoreLogsGasPayments(batch)
    \/ /\ lastOp.op \in {"none", "store_logs_insertions"}
       /\ \E batch \in InsertionBatches : StoreLogsInsertions(batch)

SpecLogs == Init /\ [][NextLogs]_vars

\* The sequence without its last element.
Front(q) == SubSeq(q, 1, Len(q) - 1)

\* The count of a batch is the count of the batch without its last record, plus
\* one if the last record, ingested in the store the others left, was new.
CountsTheNew(whole, front, last) ==
    /\ whole.ret.tag = "Ok" /\ front.ret.tag = "Ok" /\ last.ret.tag = "Ok"
    /\ whole.db = last.db
    /\ whole.ret.val = front.ret.val + (IF last.ret.val THEN 1 ELSE 0)

\* C13: for each event kind store_logs ingests the records in batch order and
\* returns Ok(count), count the number of records whose ingestion returned true;
\* duplicates count 0 and do not make it fail.  For messages and insertions the
\* count is the number of nonces and leaf indexes the batch added.
C13_StoreLogsCountsNewRecords ==
    /\ store_logs_messages(db, <<>>, 0) = [db |-> db, ret |-> Ok(0)]
    /\ store_logs_gas_payments(db, <<>>) = [db |-> db, ret |-> Ok(0)]
    /\ store_logs_insertions(db, <<>>, 0) = [db |-> db, ret |-> Ok(0)]
    /\ \A batch \in MessageBatches \ {<<>>} :
           LET whole == store_logs_messages(db, batch, 0)
               front == store_logs_messages(db, Front(batch), 0)
               rec == batch[Len(batch)]
           IN  /\ CountsTheNew(whole, front,
                               store_message(front.db, rec.message, rec.meta.block_number))
               /\ whole.ret.val = Cardinality(StoredNonces(whole.db) \ StoredNonces(db))
    /\ \A batch \in GasPaymentBatches \ {<<>>} :
           LET whole == store_logs_gas_payments(db, batch)
               front == store_logs_gas_payments(db, Front(batch))
               rec == batch[Len(batch)]
           IN  CountsTheNew(whole, front,
                            process_indexed_gas_payment(front.db, rec.payment, rec.meta))
    /\ \A batch \in InsertionBatches \ {<<>>} :
           LET whole == store_logs_insertions(db, batch, 0)
               front == store_logs_insertions(db, Front(batch), 0)
               rec == batch[Len(batch)]
           IN  /\ CountsTheNew(whole, front,
                               process_tree_insertion(front.db, rec.insertion,
                                                      rec.meta.block_number))
               /\ whole.ret.val = Cardinality(StoredLeaves(whole.db) \ StoredLeaves(db))

\* A batch of MaxBatch gas payments of which one was new.
C13_Witness ==
    /\ lastOp.op = "store_logs_gas_payments"
    /\ lastOp.len = MaxBatch
    /\ lastOp.ret = Ok(1)

----------------------------------------------------------------------------
(* Calls cut short.  A write of the substrate fails, or the process dies at   *)
(* it: the writes the call made before stay, the ones after are not made.     *)
(* `writes` is the number of writes of the call that succeed.                  *)

\* The stores a call passes through, one per write, cut after `writes` writes:
\* the call completes with ret when it makes no more writes than that.
CutAfter(after, writes, ret) ==
    IF writes >= Len(after) - 1
    THEN [db |-> after[Len(after)], ret |-> ret]
    ELSE [db |-> after[writes + 1], ret |-> ErrV]

\* store_message_interrupted writing nonce -> id before id -> message.
store_message_interrupted_id_first(d, message, dispatched_block_number, writes) ==
    LET found == retrieve_message_id_by_nonce(d, message.nonce) IN
    IF found.tag = "Ok" /\ found.val.tag = "Some"
    THEN [db |-> d, ret |-> Ok(FALSE)]
    ELSE LET id == MessageId(message)
             d1 == store_message_id_by_nonce(d, message.nonce, id)
             d2 == store_message_by_id(d1, id, message)
             r3 == try_update_max_seen_message_nonce(d2, message.nonce)
         IN  CutAfter(<<d, d1, d2, r3.db,
                        store_dispatched_block_number_by_nonce(
                            r3.db, message.nonce, dispatched_block_number)>>,
                      writes, Ok(TRUE))

\* HyperlaneRocksDB::store_message, its `?` on a failed write taken.
store_message_interrupted(d, message, dispatched_block_number, writes) ==
    LET found == retrieve_message_id_by_nonce(d, message.nonce) IN
    IF found.tag = "Ok" /\ found.val.tag = "Some"
    THEN [db |-> d, ret |-> Ok(FALSE)]
    ELSE LET id == MessageId(message)
             d1 == store_message_by_id(d, id, message)
             d2 == store_message_id_by_nonce(d1, message.nonce, id)
             current_max == unwrap_or(retrieve_highest_seen_message_nonce(d2).val, 0)
             d3 == store_highest_seen_message_nonce_number(d2, FALSE, message.nonce)
         IN  IF message.nonce >= current_max
             THEN CutAfter(<<d, d1, d2, d3,
                             store_dispatched_block_number_by_nonce(
                                 d3, message.nonce, dispatched_block_number)>>,
                           writes, Ok(TRUE))
             ELSE CutAfter(<<d, d1, d2,
                             store_dispatched_block_number_by_nonce(
                                 d2, message.nonce, dispatched_block_number)>>,
                           writes, Ok(TRUE))

\* HyperlaneRocksDB::process_gas_payment, its `?` on a failed write taken.
process_gas_payment_interrupted(d, payment, log_meta, writes) ==
    LET payment_meta == PaymentMetaOf(log_meta)
        processed == retrieve_processed_by_gas_payment_meta(d, payment_meta)
    IN  IF processed.tag = "Err" THEN [db |-> d, ret |-> ErrV]
        ELSE IF unwrap_or(processed.val, FALSE) THEN [db |-> d, ret |-> Ok(FALSE)]
        ELSE LET d1 == store_processed_by_gas_payment_meta(d, payment_meta, TRUE)
                 r2 == update_gas_payment_by_gas_payment_key(d1, payment)
             IN CutAfter(<<d, d1, r2.db>>, writes, Ok(TRUE))

\* HyperlaneRocksDB::process_tree_insertion, its `?` on a failed write taken.
process_tree_insertion_interrupted(d, insertion, insertion_block_number, writes) ==
    LET found == retrieve_merkle_tree_insertion_by_leaf_index(d, insertion.leaf_index) IN
    IF found.tag = "Ok" /\ found.val.tag = "Some"
    THEN [db |-> d, ret |-> Ok(FALSE)]
    ELSE LET d1 == store_merkle_tree_insertion_by_leaf_index(
                       d, insertion.leaf_index, insertion)
             d2 == store_merkle_leaf_index_by_message_id(
                       d1, insertion.message_id, insertion.leaf_index)
             d3 == store_merkle_tree_insertion_block_number_by_leaf_index(
                       d2, insertion.leaf_index, insertion_block_number)
         IN CutAfter(<<d, d1, d2, d3>>, writes, Ok(TRUE))

\* A store_message call that is cut short at one of its writes.
StoreMessageInterrupted(message, dispatched_block_number, writes) ==
    LET r == store_message_interrupted(db, message, dispatched_block_number, writes) IN
    /\ r.ret = ErrV
    /\ db' = r.db
    /\ lastOp' = [op |-> "store_message_interrupted", message |-> message,
                  block |-> dispatched_block_number]
    /\ UNCHANGED <<pc, call, local, submitted, server, poll>>

\* A process_gas_payment call that is cut short at one of its writes.
ProcessGasPaymentInterrupted(payment, log_meta, writes) ==
    LET r == process_gas_payment_interrupted(db, payment, log_meta, writes) IN
    /\ r.ret = ErrV
    /\ db' = r.db
    /\ lastOp' = [op |-> "process_gas_payment_interrupted", payment |-> payment,
                  meta |-> log_meta,
                  prior |-> TotalOrZero(db, GasPaymentKeyOf(payment)).payment]
    /\ submitted' = submitted \cup {PaymentMetaOf(log_meta)}
    /\ UNCHANGED <<pc, call, local, server, poll>>

\* A process_tree_insertion call that is cut short at one of its writes.
ProcessTreeInsertionInterrupted(insertion, insertion_block_number, writes) ==
    LET r == process_tree_insertion_interrupted(db, insertion, insertion_block_number, writes) IN
    /\ r.ret = ErrV
    /\ db' = r.db
    /\ lastOp' = [op |-> "process_tree_insertion_interrupted", insertion |-> insertion,
                  block |-> insertion_block_number]
    /\ UNCHANGED <<pc, call, local, submitted, server, poll>>

\* The writes a call can make before it is cut: fewer than all four of store_message.
CutPoints == 0..3

NextMsgCut ==
    \/ \E m \in HyperlaneMessages, b \in Blocks : StoreMessage(m, b)
    \/ \E m \in HyperlaneMessages, b \in Blocks, k \in CutPoints :
           StoreMessageInterrupted(m, b, k)

NextGasCut ==
    \/ \E p \in InterchainGasPayments, lm \in LogMetas : ProcessGasPayment(p, lm)
    \/ \E p \in InterchainGasPayments, lm \in LogMetas, k \in CutPoints :
           ProcessGasPaymentInterrupted(p, lm, k)

NextMerkleCut ==
    \/ \E ins \in MerkleTreeInsertions, b \in Blocks : ProcessTreeInsertion(ins, b)
    \/ \E ins \in MerkleTreeInsertions, b \in Blocks, k \in CutPoints :
           ProcessTreeInsertionInterrupted(ins, b, k)

SpecMsgCut == Init /\ [][NextMsgCut]_vars
SpecGasCut == Init /\ [][NextGasCut]_vars
SpecMerkleCut == Init /\ [][NextMerkleCut]_vars

\* C14: when store_message(m, b) was cut short after some of its writes, the
\* retry of store_message(m, b) leaves id -> message, nonce -> id, a highest
\* seen nonce of at least m.nonce, and nonce -> b.
C14_MessageReplaySelfHeals ==
    lastOp.op = "store_message_interrupted" =>
        LET m == lastOp.message
            retry == store_message(db, m, lastOp.block)
        IN  /\ retry.ret.tag = "Ok"
            /\ retrieve_message_by_id(retry.db, MessageId(m)) = Ok(Some(m))
            /\ retrieve_message_id_by_nonce(retry.db, m.nonce) = Ok(Some(MessageId(m)))
            /\ LET highest == retrieve_highest_seen_message_nonce(retry.db) IN
               highest.tag = "Ok" /\ highest.val.tag = "Some" /\ highest.val.val >= m.nonce
            /\ retrieve_dispatched_block_number_by_nonce(retry.db, m.nonce)
                   = Ok(Some(lastOp.block))

\* C15: when process_gas_payment(p, meta) of a payment not yet processed was cut
\* short between its writes, after the retry of process_gas_payment(p, meta) the
\* total of p's key is the total before the first attempt plus p's amount.
C15_GasPaymentReplayCountsOnce ==
    lastOp.op = "process_gas_payment_interrupted" =>
        LET p == lastOp.payment
            retry == process_gas_payment(db, p, lastOp.meta)
        IN  /\ retry.ret.tag = "Ok"
            /\ TotalOrZero(retry.db, GasPaymentKeyOf(p)).payment = lastOp.prior + p.payment

\* C16: when process_tree_insertion(ins, b) was cut short after some of its
\* writes, the retry of process_tree_insertion(ins, b) leaves
\* leaf_index -> insertion, message_id -> leaf_index and leaf_index -> b.
C16_InsertionReplayCompletes ==
    lastOp.op = "process_tree_insertion_interrupted" =>
        LET ins == lastOp.insertion
            retry == process_tree_insertion(db, ins, lastOp.block)
        IN  /\ retry.ret.tag = "Ok"
            /\ retrieve_merkle_tree_insertion_by_leaf_index(retry.db, ins.leaf_index)
                   = Ok(Some(ins))
            /\ retrieve_merkle_leaf_index_by_message_id(retry.db, ins.message_id)
                   = Ok(Some(ins.leaf_index))
            /\ retrieve_merkle_tree_insertion_block_number_by_leaf_index(
                   retry.db, ins.leaf_index) = Ok(Some(lastOp.block))

----------------------------------------------------------------------------
(* A failed read.  The substrate fails the get of the `already stored?`      *)
(* lookup of store_message: retrieve_message_id_by_nonce returns Err.         *)

\* HyperlaneRocksDB::store_message when its lookup of the nonce fails:
\* `if let Ok(Some(_))` does not match an Err, and the call goes on.
store_message_lookup_failed(d, message, dispatched_block_number) ==
    LET found == ErrV IN
    IF found.tag = "Ok" /\ found.val.tag = "Some"
    THEN [db |-> d, ret |-> Ok(FALSE)]
    ELSE LET id == MessageId(message)
             d1 == store_message_by_id(d, id, message)
             d2 == store_message_id_by_nonce(d1, message.nonce, id)
             r3 == try_update_max_seen_message_nonce(d2, message.nonce)
             d4 == store_dispatched_block_number_by_nonce(
                       r3.db, message.nonce, dispatched_block_number)
         IN IF r3.ret.tag = "Err" THEN r3 ELSE [db |-> d4, ret |-> Ok(TRUE)]

StoreMessageLookupFailed(message, dispatched_block_number) ==
    LET r == store_message_lookup_failed(db, message, dispatched_block_number) IN
    /\ db' = r.db
    /\ lastOp' = [op |-> "store_message_lookup_failed", block |-> dispatched_block_number,
                  ret |-> r.ret]
    /\ UNCHANGED <<pc, call, local, submitted, server, poll>>

NextMsgReadFail ==
    \/ \E m \in HyperlaneMessages, b \in Blocks : StoreMessage(m, b)
    \/ \E m \in HyperlaneMessages, b \in Blocks : StoreMessageLookupFailed(m, b)

SpecMsgReadFail == Init /\ [][NextMsgReadFail]_vars

\* C17: a call whose read of the store fails, the `already stored?` lookup
\* included, returns the error and writes nothing after it.
C17_NoErrorSwallowed ==
    [][ \A m \in HyperlaneMessages, b \in Blocks :
            StoreMessageLookupFailed(m, b) =>
                /\ lastOp'.ret.tag = "Err"
                /\ db' = db ]_vars

----------------------------------------------------------------------------
(* Batches in which the ingestion of one record fails.  `k` is the position   *)
(* of the record at whose ingestion the substrate starts failing writes, and  *)
(* `writes` the number of writes of that ingestion that still succeed.        *)

\* HyperlaneRocksDB::process_indexed_gas_payment, its `?` on a failed write taken.
process_indexed_gas_payment_interrupted(d, indexed_payment, log_meta, writes) ==
    LET payment == indexed_payment.inner
        r1 == process_gas_payment_interrupted(d, payment, log_meta, writes)
        made == IF r1.ret = Ok(TRUE) THEN 2 ELSE 0
    IN  IF r1.ret.tag = "Err" THEN r1
        ELSE IF indexed_payment.sequence.tag = "None" THEN r1
        ELSE LET gas_payment_sequence == indexed_payment.sequence.val
                 found == retrieve_gas_payment_by_sequence(r1.db, gas_payment_sequence)
             IN IF found.tag = "Ok" /\ found.val.tag = "Some"
                THEN [db |-> r1.db, ret |-> Ok(FALSE)]
                ELSE LET d2 == store_gas_payment_by_sequence(
                                   r1.db, gas_payment_sequence, payment)
                         d3 == store_gas_payment_block_by_sequence(
                                   d2, gas_payment_sequence, log_meta.block_number)
                     IN CutAfter(<<r1.db, d2, d3>>, writes - made, r1.ret)

\* store_logs of messages that goes on with the next record after an error.
RECURSIVE store_logs_messages_skipping(_, _, _, _, _)
store_logs_messages_skipping(d, messages, stored, k, writes) ==
    IF messages = <<>> THEN [db |-> d, ret |-> Ok(stored)]
    ELSE LET rest(r) ==
                 store_logs_messages_skipping(
                     r.db, Tail(messages),
                     IF r.ret = Ok(TRUE) THEN stored + 1 ELSE stored, k - 1, writes)
         IN CHOOSE out \in {rest(r) : r \in {
                IF k = 1
                THEN store_message_interrupted(d, Head(messages).message,
                                               Head(messages).meta.block_number, writes)
                ELSE store_message(d, Head(messages).message,
                                   Head(messages).meta.block_number)}} : TRUE

\* HyperlaneLogStore<HyperlaneMessage>::store_logs, a write failing in record k.
RECURSIVE store_logs_messages_failing(_, _, _, _, _)
store_logs_messages_failing(d, messages, stored, k, writes) ==
    IF messages = <<>> THEN [db |-> d, ret |-> Ok(stored)]
    ELSE LET rest(r) ==
                 IF r.ret.tag = "Err" THEN r
                 ELSE store_logs_messages_failing(
                          r.db, Tail(messages),
                          IF r.ret.val THEN stored + 1 ELSE stored, k - 1, writes)
         IN CHOOSE out \in {rest(r) : r \in {
                IF k = 1
                THEN store_message_interrupted(d, Head(messages).message,
                                               Head(messages).meta.block_number, writes)
                ELSE store_message(d, Head(messages).message,
                                   Head(messages).meta.block_number)}} : TRUE

\* store_and_count_new, a write failing in record k.
RECURSIVE store_and_count_new_failing(_, _, _, _, _)
store_and_count_new_failing(d, logs, new_logs, k, writes) ==
    IF logs = <<>> THEN [db |-> d, ret |-> Ok(new_logs)]
    ELSE LET rest(r) ==
                 IF r.ret.tag = "Err" THEN r
                 ELSE store_and_count_new_failing(
                          r.db, Tail(logs),
                          IF r.ret.val THEN new_logs + 1 ELSE new_logs, k - 1, writes)
         IN CHOOSE out \in {rest(r) : r \in {
                IF k = 1
                THEN process_indexed_gas_payment_interrupted(
                         d, Head(logs).payment, Head(logs).meta, writes)
                ELSE process_indexed_gas_payment(
                         d, Head(logs).payment, Head(logs).meta)}} : TRUE

StoreLogsMessagesFailing(messages, k, writes) ==
    LET r == store_logs_messages_failing(db, messages, 0, k, writes) IN
    /\ r.ret = ErrV
    /\ db' = r.db
    /\ lastOp' = [op |-> "store_logs_failed", at |-> k, ret |-> r.ret]
    /\ UNCHANGED <<pc, call, local, submitted, server, poll>>

StoreLogsGasPaymentsFailing(payments, k, writes) ==
    LET r == store_and_count_new_failing(db, payments, 0, k, writes) IN
    /\ r.ret = ErrV
    /\ db' = r.db
    /\ lastOp' = [op |-> "store_logs_gas_payments_failed", at |-> k, ret |-> r.ret]
    /\ submitted' = submitted \cup {PaymentMetaOf(payments[j].meta) : j \in 1..k}
    /\ UNCHANGED <<pc, call, local, server, poll>>

\* The dispatch logs of a chain that emits one message per nonce, in nonce order.
DispatchStream ==
    [i \in 1..(MaxNonce + 1) |->
        [message |-> [nonce |-> i - 1, body |-> 1],
         meta |-> [block_number |-> BlockOfLog(i), log |-> i]]]

\* A range of up to MaxBatch consecutive logs of it.
DispatchBatches ==
    UNION {{SubSeq(DispatchStream, i, i + n - 1) : i \in 1..(MaxNonce + 2 - n)} :
              n \in 0..MaxBatch}

\* A range of up to MaxBatch consecutive gas payment logs.
GasPaymentRanges ==
    UNION {{SubSeq(GasPaymentStream, i, i + n - 1) : i \in 1..(MaxLog + 1 - n)} :
              n \in 0..MaxBatch}

\* One indexer alone, of messages or of gas payments, on a substrate whose
\* writes can fail.
NextLogsFail ==
    \/ /\ lastOp.op \in {"none", "store_logs", "store_logs_failed"}
       /\ \/ \E batch \in DispatchBatches : StoreLogsMessages(batch)
          \/ \E batch \in DispatchBatches, k \in 1..MaxBatch, writes \in CutPoints :
                 k <= Len(batch) /\ StoreLogsMessagesFailing(batch, k, writes)
    \/ /\ lastOp.op \in {"none", "store_logs_gas_payments", "store_logs_gas_payments_failed"}
       /\ \/ \E batch \in GasPaymentRanges : StoreLogsGasPayments(batch)
          \/ \E batch \in GasPaymentRanges, k \in 1..MaxBatch, writes \in CutPoints :
                 k <= Len(batch) /\ StoreLogsGasPaymentsFailing(batch, k, writes)

SpecLogsFail == Init /\ [][NextLogsFail]_vars

\* The cell under a key, or None.
Cell(d, prefix, key) == IF key \in DOMAIN d[prefix] THEN Some(d[prefix][key]) ELSE NoneV

\* C18: when the ingestion of record k of a batch fails, store_logs returns the
\* error at once: the store is the one the records before k and the writes
\* record k made have left, and no key of a record after k is touched.
C18_BatchAbortsAtFirstError ==
    /\ \A batch \in DispatchBatches, k \in 1..MaxBatch, writes \in CutPoints :
           k <= Len(batch) =>
               LET front == store_logs_messages(db, SubSeq(batch, 1, k - 1), 0)
                   failed == store_message_interrupted(
                                 front.db, batch[k].message, batch[k].meta.block_number, writes)
                   r == store_logs_messages_failing(db, batch, 0, k, writes)
               IN  failed.ret = ErrV =>
                       /\ r.ret = ErrV
                       /\ r.db = failed.db
                       /\ \A j \in (k + 1)..Len(batch) :
                              LET n == batch[j].message.nonce IN
                              n # batch[k].message.nonce =>
                                  /\ Cell(r.db, MESSAGE_ID, n) = Cell(front.db, MESSAGE_ID, n)
                                  /\ Cell(r.db, MESSAGE_DISPATCHED_BLOCK_NUMBER, n)
                                         = Cell(front.db, MESSAGE_DISPATCHED_BLOCK_NUMBER, n)
    /\ \A batch \in GasPaymentRanges, k \in 1..MaxBatch, writes \in CutPoints :
           k <= Len(batch) =>
               LET front == store_logs_gas_payments(db, SubSeq(batch, 1, k - 1))
                   failed == process_indexed_gas_payment_interrupted(
                                 front.db, batch[k].payment, batch[k].meta, writes)
                   r == store_and_count_new_failing(db, batch, 0, k, writes)
               IN  failed.ret = ErrV =>
                       /\ r.ret = ErrV
                       /\ r.db = failed.db
                       /\ \A j \in (k + 1)..Len(batch) :
                              LET l == PaymentMetaOf(batch[j].meta) IN
                              l # PaymentMetaOf(batch[k].meta) =>
                                  Cell(r.db, GAS_PAYMENT_META_PROCESSED, l)
                                      = Cell(front.db, GAS_PAYMENT_META_PROCESSED, l)

\* A batch has failed at its second record, after its first record was stored.
C18_Witness ==
    /\ lastOp.op = "store_logs_failed"
    /\ lastOp.at = 2
    /\ lastOp.ret = ErrV
    /\ StoredNonces(db) # {}

----------------------------------------------------------------------------
(* Concurrent gas payment writers that all run to completion. *)

NextGasRace ==
    \E w \in Workers :
        \/ \E l \in Logs, sequence \in {NoneV} \cup {Some(q) : q \in Seqs} :
               Call(w, l, sequence)
        \/ MetaLookup(w)
        \/ MetaStore(w)
        \/ TotalRead(w)
        \/ TotalWrite(w)
        \/ SeqLookup(w)
        \/ SeqStore(w)
        \/ SeqBlockStore(w)

SpecGasRace == Init /\ [][NextGasRace]_vars

\* C19: concurrent process_gas_payment calls on one gas payment key with
\* distinct processing keys lose no update: under every interleaving, once the
\* calls have returned the total of the key holds the amount of every payment
\* presented for it.
C19_NoLostUpdate ==
    (\A w \in Workers : pc[w] = "idle") =>
        \A key \in GasPaymentKeys :
            TotalOrZero(db, key).payment
                >= SumOfPayments({l \in submitted : GasPaymentKeyOf(EmittedPayment(l)) = key})

----------------------------------------------------------------------------
(* Gas expenditure. *)

MaxSpent == 3
SpentMsgIds == {1, 2}

\* The expenditures a relayer reports: tokens and gas used for a message.
InterchainGasExpenditures ==
    [message_id : SpentMsgIds, tokens_used : 0..MaxAmount, gas_used : 0..MaxAmount]

\* InterchainGasExpenditureData::default
DefaultExpenditureData == [tokens_used |-> 0, gas_used |-> 0]

\* InterchainGasExpenditureData::complete
complete_expenditure(data, message_id) ==
    [message_id |-> message_id, tokens_used |-> data.tokens_used, gas_used |-> data.gas_used]

\* impl Add for InterchainGasExpenditure
AddExpenditures(a, b) ==
    [message_id |-> a.message_id, tokens_used |-> a.tokens_used + b.tokens_used,
     gas_used |-> a.gas_used + b.gas_used]

store_interchain_gas_expenditure_data_by_message_id(d, key, val) ==
    store_keyed_encodable(d, GAS_EXPENDITURE_FOR_MESSAGE_ID, key,
                          "InterchainGasExpenditureData", val)
retrieve_interchain_gas_expenditure_data_by_message_id(d, key) ==
    retrieve_keyed_decodable(d, GAS_EXPENDITURE_FOR_MESSAGE_ID, key,
                             "InterchainGasExpenditureData")

\* HyperlaneRocksDB::retrieve_gas_expenditure_by_message_id
retrieve_gas_expenditure_by_message_id(d, message_id) ==
    LET data == retrieve_interchain_gas_expenditure_data_by_message_id(d, message_id) IN
    IF data.tag = "Err" THEN ErrV
    ELSE Ok(complete_expenditure(unwrap_or(data.val, DefaultExpenditureData), message_id))

\* update_gas_expenditure_by_message_id storing the event in place of the sum.
overwrite_gas_expenditure_by_message_id(d, event) ==
    [db |-> store_interchain_gas_expenditure_data_by_message_id(
                d, event.message_id,
                [tokens_used |-> event.tokens_used, gas_used |-> event.gas_used]),
     ret |-> Ok(TRUE)]

\* HyperlaneRocksDB::update_gas_expenditure_by_message_id
update_gas_expenditure_by_message_id(d, event) ==
    LET existing_expenditure == retrieve_gas_expenditure_by_message_id(d, event.message_id) IN
    IF existing_expenditure.tag = "Err" THEN [db |-> d, ret |-> ErrV]
    ELSE LET total == AddExpenditures(existing_expenditure.val, event) IN
         [db |-> store_interchain_gas_expenditure_data_by_message_id(
                     d, total.message_id,
                     [tokens_used |-> total.tokens_used, gas_used |-> total.gas_used]),
          ret |-> Ok(TRUE)]

\* HyperlaneRocksDB::process_gas_expenditure
process_gas_expenditure(d, expenditure) == update_gas_expenditure_by_message_id(d, expenditure)

\* What the calls made so far add up to, per message: kept in lastOp by the
\* caller, not read from the store.
SpentSoFar ==
    IF lastOp.op = "process_gas_expenditure" THEN lastOp.spent
    ELSE [id \in SpentMsgIds |-> DefaultExpenditureData]

\* A relayer reports an expenditure, as long as the caller's sums stay within MaxSpent.
ProcessGasExpenditure(expenditure) ==
    LET r == process_gas_expenditure(db, expenditure)
        id == expenditure.message_id
        tokens == SpentSoFar[id].tokens_used + expenditure.tokens_used
        gas == SpentSoFar[id].gas_used + expenditure.gas_used
    IN  /\ tokens <= MaxSpent
        /\ gas <= MaxSpent
        /\ db' = r.db
        /\ lastOp' = [op |-> "process_gas_expenditure", ret |-> r.ret,
                      spent |-> [SpentSoFar EXCEPT
                                    ![id] = [tokens_used |-> tokens, gas_used |-> gas]]]
        /\ UNCHANGED <<pc, call, local, submitted, server, poll>>

NextSpent == \E e \in InterchainGasExpenditures : ProcessGasExpenditure(e)

SpecSpent == Init /\ [][NextSpent]_vars


\* C20: after any sequence of process_gas_expenditure calls,
\* retrieve_gas_expenditure_by_message_id(id) returns, for every id, the sum of
\* tokens_used and of gas_used over all the calls made for id: a repeated
\* expenditure is added again, an id with no call reads as the zero total, and
\* a call for one id leaves the totals of the others as they were.
C20_ExpenditureAccumulates ==
    /\ \A id \in SpentMsgIds :
           retrieve_gas_expenditure_by_message_id(db, id)
               = Ok(complete_expenditure(SpentSoFar[id], id))
    /\ lastOp.op = "process_gas_expenditure" => lastOp.ret.tag = "Ok"
    /\ \A e \in InterchainGasExpenditures :
           LET twice == process_gas_expenditure(process_gas_expenditure(db, e).db, e).db IN
           \A id \in SpentMsgIds :
               retrieve_gas_expenditure_by_message_id(twice, id) =
                   IF id = e.message_id
                   THEN Ok(complete_expenditure(
                               [tokens_used |-> SpentSoFar[id].tokens_used + 2 * e.tokens_used,
                                gas_used |-> SpentSoFar[id].gas_used + 2 * e.gas_used], id))
                   ELSE retrieve_gas_expenditure_by_message_id(db, id)

\* Message 1 has expenditures that add up to (2, 2) and message 2 has none.
C20_Witness ==
    /\ lastOp.op = "process_gas_expenditure"
    /\ retrieve_gas_expenditure_by_message_id(db, 1)
           = Ok([message_id |-> 1, tokens_used |-> 2, gas_used |-> 2])
    /\ 2 \notin DOMAIN db[GAS_EXPENDITURE_FOR_MESSAGE_ID]
    /\ retrieve_gas_expenditure_by_message_id(db, 2)
           = Ok([message_id |-> 2, tokens_used |-> 0, gas_used |-> 0])

----------------------------------------------------------------------------
(* The logical mappings of the store. *)

\* The instantiations of make_store_and_retrieve!: the name suffix, the column
\* prefix, the key type and the value type of each accessor pair.
Accessors ==
    { [name |-> "message_id_by_nonce", prefix |-> MESSAGE_ID,
       key_ty |-> "u32", val_ty |-> "H256"],
      [name |-> "message_by_id", prefix |-> MESSAGE,
       key_ty |-> "H256", val_ty |-> "HyperlaneMessage"],
      [name |-> "dispatched_block_number_by_nonce", prefix |-> MESSAGE_DISPATCHED_BLOCK_NUMBER,
       key_ty |-> "u32", val_ty |-> "u64"],
      [name |-> "processed_by_nonce", prefix |-> NONCE_PROCESSED,
       key_ty |-> "u32", val_ty |-> "bool"],
      [name |-> "processed_by_gas_payment_meta", prefix |-> GAS_PAYMENT_META_PROCESSED,
       key_ty |-> "InterchainGasPaymentMeta", val_ty |-> "bool"],
      [name |-> "interchain_gas_expenditure_data_by_message_id",
       prefix |-> GAS_EXPENDITURE_FOR_MESSAGE_ID,
       key_ty |-> "H256", val_ty |-> "InterchainGasExpenditureData"],
      [name |-> "status_by_message_id", prefix |-> STATUS_BY_MESSAGE_ID,
       key_ty |-> "H256", val_ty |-> "PendingOperationStatus"],
      [name |-> "interchain_gas_payment_data_by_gas_payment_key",
       prefix |-> GAS_PAYMENT_FOR_MESSAGE_ID,
       key_ty |-> "GasPaymentKey", val_ty |-> "InterchainGasPaymentData"],
      [name |-> "gas_payment_by_sequence", prefix |-> GAS_PAYMENT_BY_SEQUENCE,
       key_ty |-> "u32", val_ty |-> "InterchainGasPayment"],
      [name |-> "gas_payment_block_by_sequence", prefix |-> GAS_PAYMENT_BY_SEQUENCE,
       key_ty |-> "u32", val_ty |-> "u64"],
      [name |-> "pending_message_retry_count_by_message_id",
       prefix |-> PENDING_MESSAGE_RETRY_COUNT_FOR_MESSAGE_ID,
       key_ty |-> "H256", val_ty |-> "u32"],
      [name |-> "merkle_tree_insertion_by_leaf_index", prefix |-> MERKLE_TREE_INSERTION,
       key_ty |-> "u32", val_ty |-> "MerkleTreeInsertion"],
      [name |-> "merkle_leaf_index_by_message_id", prefix |-> MERKLE_LEAF_INDEX_BY_MESSAGE_ID,
       key_ty |-> "H256", val_ty |-> "u32"],
      [name |-> "merkle_tree_insertion_block_number_by_leaf_index",
       prefix |-> MERKLE_TREE_INSERTION_BLOCK_NUMBER_BY_LEAF_INDEX,
       key_ty |-> "u32", val_ty |-> "u64"],
      [name |-> "highest_seen_message_nonce_number", prefix |-> HIGHEST_SEEN_MESSAGE_NONCE,
       key_ty |-> "bool", val_ty |-> "u32"] }

\* Keys of each key type, as the handlers form them.
KeysOfType(ty) ==
    CASE ty = "u32" -> Seqs
      [] ty = "H256" -> MsgIds
      [] ty = "bool" -> {FALSE}
      [] ty = "GasPaymentKey" -> GasPaymentKeys
      [] ty = "InterchainGasPaymentMeta" -> Logs

\* A value or two of each value type.
ValuesOfType(ty) ==
    CASE ty = "u32" -> {0, 1}
      [] ty = "u64" -> Blocks
      [] ty = "bool" -> {TRUE}
      [] ty = "H256" -> MsgIds
      [] ty = "HyperlaneMessage" -> {[nonce |-> 0, body |-> 1]}
      [] ty = "MerkleTreeInsertion" -> {[leaf_index |-> 0, message_id |-> 1]}
      [] ty = "InterchainGasPayment" ->
             {[message_id |-> 1, destination |-> 1, payment |-> 1, gas_amount |-> 1]}
      [] ty = "InterchainGasPaymentData" -> {[payment |-> 1, gas_amount |-> 1]}
      [] ty = "InterchainGasExpenditureData" -> {[tokens_used |-> 1, gas_used |-> 1]}
      [] ty = "PendingOperationStatus" -> {"FirstPrepareAttempt"}

\* store_<name_suffix> and retrieve_<name_suffix> of an accessor pair.
store_by(a, d, key, val) == store_keyed_encodable(d, a.prefix, key, a.val_ty, val)
retrieve_by(a, d, key) == retrieve_keyed_decodable(d, a.prefix, key, a.val_ty)

\* C21: storing a value through one keyed accessor, for any key, changes the
\* value no other accessor retrieves, for any key.
C21_PrefixesDoNotCollide ==
    \A a \in Accessors, b \in Accessors :
        a # b =>
            \A key \in KeysOfType(a.key_ty), val \in ValuesOfType(a.val_ty),
               other \in KeysOfType(b.key_ty) :
                retrieve_by(b, store_by(a, db, key, val), other) = retrieve_by(b, db, other)

----------------------------------------------------------------------------
(* Processing status and retry count of a message, kept for the delivery    *)
(* component.                                                               *)

MaxRetry == 1
StatusMsgIds == {1, 2}
RetryCounts == 0..MaxRetry

\* PendingOperationStatus: a few of its variants.
PendingOperationStatuses == {"FirstPrepareAttempt", "Retry", "ReadyToSubmit"}

\* store_status_by_message_id filing every status under one key.
store_status_under_one_key(d, key, val) ==
    store_keyed_encodable(d, STATUS_BY_MESSAGE_ID, 1, "PendingOperationStatus", val)

store_status_by_message_id(d, key, val) ==
    store_keyed_encodable(d, STATUS_BY_MESSAGE_ID, key, "PendingOperationStatus", val)
retrieve_status_by_message_id(d, key) ==
    retrieve_keyed_decodable(d, STATUS_BY_MESSAGE_ID, key, "PendingOperationStatus")

store_pending_message_retry_count_by_message_id(d, key, val) ==
    store_keyed_encodable(d, PENDING_MESSAGE_RETRY_COUNT_FOR_MESSAGE_ID, key, "u32", val)
retrieve_pending_message_retry_count_by_message_id(d, key) ==
    retrieve_keyed_decodable(d, PENDING_MESSAGE_RETRY_COUNT_FOR_MESSAGE_ID, key, "u32")

StoreStatusByMessageId(message_id, status) ==
    /\ db' = store_status_by_message_id(db, message_id, status)
    /\ lastOp' = [op |-> "store_status_by_message_id", message_id |-> message_id,
                  val |-> status, ret |-> Ok(TRUE)]
    /\ UNCHANGED <<pc, call, local, submitted, server, poll>>

StorePendingMessageRetryCountByMessageId(message_id, count) ==
    /\ db' = store_pending_message_retry_count_by_message_id(db, message_id, count)
    /\ lastOp' = [op |-> "store_pending_message_retry_count_by_message_id",
                  message_id |-> message_id, val |-> count, ret |-> Ok(TRUE)]
    /\ UNCHANGED <<pc, call, local, submitted, server, poll>>

\* The delivery component setting statuses and retry counts while the merkle
\* indexer stores insertions of the same message ids.
NextStatus ==
    \/ \E id \in StatusMsgIds, st \in PendingOperationStatuses : StoreStatusByMessageId(id, st)
    \/ \E id \in StatusMsgIds, n \in RetryCounts :
           StorePendingMessageRetryCountByMessageId(id, n)
    \/ \E id \in StatusMsgIds :
           ProcessTreeInsertion([leaf_index |-> 0, message_id |-> id], 1)

SpecStatus == Init /\ [][NextStatus]_vars

\* C24: the status and the retry count of every message id are absent at the
\* start; a store of either sets that accessor's value for that id to the value
\* stored and leaves the other accessor's value for the id, both values of
\* every other id and every other column as they were; no other call changes
\* what either accessor retrieves.
C24_StatusAndRetryCountAreKeyedGetSet ==
    /\ \A id \in StatusMsgIds :
           /\ retrieve_status_by_message_id(db, id) = Ok(NoneV)
           /\ retrieve_pending_message_retry_count_by_message_id(db, id) = Ok(NoneV)
    /\ [][ LET isStatus == lastOp'.op = "store_status_by_message_id"
               isRetry == lastOp'.op = "store_pending_message_retry_count_by_message_id"
           IN
           /\ \A id \in StatusMsgIds :
                  /\ retrieve_status_by_message_id(db', id) =
                         IF isStatus /\ id = lastOp'.message_id THEN Ok(Some(lastOp'.val))
                         ELSE retrieve_status_by_message_id(db, id)
                  /\ retrieve_pending_message_retry_count_by_message_id(db', id) =
                         IF isRetry /\ id = lastOp'.message_id THEN Ok(Some(lastOp'.val))
                         ELSE retrieve_pending_message_retry_count_by_message_id(db, id)
           /\ (isStatus \/ isRetry) =>
                  \A p \in Prefixes \ {STATUS_BY_MESSAGE_ID,
                                       PENDING_MESSAGE_RETRY_COUNT_FOR_MESSAGE_ID} :
                      db'[p] = db[p] ]_vars

\* C24 happens: message 1 has a retry count and an insertion but no status,
\* message 2 has a status that was just stored over another one.
C24_Witness ==
    /\ lastOp.op = "store_status_by_message_id"
    /\ lastOp.message_id = 2
    /\ retrieve_status_by_message_id(db, 2) = Ok(Some("Retry"))
    /\ retrieve_status_by_message_id(db, 1) = Ok(NoneV)
    /\ retrieve_pending_message_retry_count_by_message_id(db, 1) = Ok(Some(1))
    /\ retrieve_pending_message_retry_count_by_message_id(db, 2) = Ok(NoneV)
    /\ retrieve_merkle_leaf_index_by_message_id(db, 1) = Ok(Some(0))

----------------------------------------------------------------------------
(* One store per domain over one shared substrate.  In this part `db` is    *)
(* the substrate: the columns of every domain, each under the domain's      *)
(* scope followed by the column prefix.                                     *)

\* The names of two domains.
DomainNames == {"origin", "remote"}

\* TypedDB::new: the typed store of a domain keeps the domain as its scope.
TypedDB_new(domain) == [scope |-> domain]

\* TypedDB: the scope of the domain goes before the column prefix.
full_prefix(typed_db, prefix) == typed_db.scope \o prefix

\* HyperlaneRocksDB::new handing every store the scope of one fixed domain.
new_sharing_scope(domain) == [domain |-> domain, typed_db |-> TypedDB_new("origin")]

\* HyperlaneRocksDB::new
HyperlaneRocksDB_new(domain) == [domain |-> domain, typed_db |-> TypedDB_new(domain)]

\* The columns a store reads out of the substrate.
ColumnsOf(substrate, store) ==
    [p \in Prefixes |-> substrate[full_prefix(store.typed_db, p)]]

\* The substrate after a store has left its columns as d.
WithColumns(substrate, store, d) ==
    [fp \in DOMAIN substrate |->
        IF \E p \in Prefixes : full_prefix(store.typed_db, p) = fp
        THEN d[CHOOSE p \in Prefixes : full_prefix(store.typed_db, p) = fp]
        ELSE substrate[fp]]

InitShared ==
    /\ db = [fp \in {full_prefix(HyperlaneRocksDB_new(dom).typed_db, p) :
                        dom \in DomainNames, p \in Prefixes} |-> EmptyColumn]
    /\ lastOp = [op |-> "none", domain |-> "none"]
    /\ pc = [w \in Workers |-> "idle"]
    /\ call = [w \in Workers |-> NoneV]
    /\ local = [w \in Workers |-> NoneV]
    /\ submitted = {}
    /\ server = NoServer
    /\ poll = NoPoll

StoreMessageIn(domain, message, dispatched_block_number) ==
    LET store == HyperlaneRocksDB_new(domain)
        r == store_message(ColumnsOf(db, store), message, dispatched_block_number)
    IN  /\ db' = WithColumns(db, store, r.db)
        /\ lastOp' = [op |-> "store_message", domain |-> domain]
        /\ UNCHANGED <<pc, call, local, submitted, server, poll>>

ProcessTreeInsertionIn(domain, insertion, insertion_block_number) ==
    LET store == HyperlaneRocksDB_new(domain)
        r == process_tree_insertion(ColumnsOf(db, store), insertion, insertion_block_number)
    IN  /\ db' = WithColumns(db, store, r.db)
        /\ lastOp' = [op |-> "process_tree_insertion", domain |-> domain]
        /\ UNCHANGED <<pc, call, local, submitted, server, poll>>

GasStoreHighWatermarkIn(domain, block_number) ==
    LET store == HyperlaneRocksDB_new(domain)
        r == gas_store_high_watermark(ColumnsOf(db, store), block_number)
    IN  /\ db' = WithColumns(db, store, r.db)
        /\ lastOp' = [op |-> "store_high_watermark", domain |-> domain]
        /\ UNCHANGED <<pc, call, local, submitted, server, poll>>

StoreStatusByMessageIdIn(domain, message_id, status) ==
    LET store == HyperlaneRocksDB_new(domain)
        r == [db |-> store_status_by_message_id(ColumnsOf(db, store), message_id, status)]
    IN  /\ db' = WithColumns(db, store, r.db)
        /\ lastOp' = [op |-> "store_status_by_message_id", domain |-> domain]
        /\ UNCHANGED <<pc, call, local, submitted, server, poll>>

\* The agents of two domains, each calling into its own store with the same
\* nonces, leaf indices, log coordinates and message ids as the other.
NextShared ==
    \E domain \in DomainNames :
        \/ \E body \in Bodies : StoreMessageIn(domain, [nonce |-> 0, body |-> body], 1)
        \/ ProcessTreeInsertionIn(domain, [leaf_index |-> 0, message_id |-> 1], 1)
        \/ GasStoreHighWatermarkIn(domain, 1)
        \/ StoreStatusByMessageIdIn(domain, 1, "Retry")

SpecShared == InitShared /\ [][NextShared]_vars

\* C22: a call through the store of one domain leaves the columns the store
\* of every other domain reads, and so the result of every retrieval through
\* it, as they were.
C22_DomainsAreIsolated ==
    [][ \A other \in DomainNames :
            other # lastOp'.domain =>
                /\ ColumnsOf(db', HyperlaneRocksDB_new(other))
                       = ColumnsOf(db, HyperlaneRocksDB_new(other))
                /\ retrieve_message_by_nonce(ColumnsOf(db', HyperlaneRocksDB_new(other)), 0)
                       = retrieve_message_by_nonce(ColumnsOf(db, HyperlaneRocksDB_new(other)), 0)
      ]_vars

\* C22 happens: the two domains hold different messages under nonce 0, and
\* the remote domain, called last, holds no insertion at the leaf index where
\* the origin holds one.
C22_Witness ==
    LET origin == ColumnsOf(db, HyperlaneRocksDB_new("origin"))
        remote == ColumnsOf(db, HyperlaneRocksDB_new("remote"))
    IN  /\ lastOp.domain = "remote"
        /\ retrieve_message_by_nonce(origin, 0) = Ok(Some([nonce |-> 0, body |-> 1]))
        /\ retrieve_message_by_nonce(remote, 0) = Ok(Some([nonce |-> 0, body |-> 2]))
        /\ retrieve_merkle_tree_insertion_by_leaf_index(origin, 0)
               = Ok(Some([leaf_index |-> 0, message_id |-> 1]))
        /\ retrieve_merkle_tree_insertion_by_leaf_index(remote, 0) = Ok(NoneV)

----------------------------------------------------------------------------
(* The sequence-aware readers of messages and merkle insertions. *)

\* HyperlaneSequenceAwareIndexerStoreReader<HyperlaneMessage>
message_retrieve_by_sequence(d, sequence) == retrieve_message_by_nonce(d, sequence)

\* The message reader's block number lookup going to the merkle column.
message_block_number_from_merkle_column(d, sequence) ==
    retrieve_merkle_tree_insertion_block_number_by_leaf_index(d, sequence)

message_retrieve_log_block_number_by_sequence(d, sequence) ==
    retrieve_dispatched_block_number_by_nonce(d, sequence)

\* HyperlaneSequenceAwareIndexerStoreReader<MerkleTreeInsertion>
merkle_retrieve_by_sequence(d, sequence) ==
    retrieve_merkle_tree_insertion_by_leaf_index(d, sequence)

merkle_retrieve_log_block_number_by_sequence(d, sequence) ==
    retrieve_merkle_tree_insertion_block_number_by_leaf_index(d, sequence)

\* The messages of the first two nonces, and the insertions of one message at
\* the first leaf index.
FirstMessages == [nonce : {0, 1}, body : Bodies]
FirstInsertions == [leaf_index : {0}, message_id : {1}]

\* The message indexer and the merkle indexer of one domain, each storing
\* what it observes under the sequence numbers the other uses too.
NextSeqRead ==
    \/ \E m \in FirstMessages, b \in Blocks : StoreMessage(m, b)
    \/ \E ins \in FirstInsertions, b \in Blocks : ProcessTreeInsertion(ins, b)

SpecSeqRead == Init /\ [][NextSeqRead]_vars

\* C23: in the empty store every sequence reads as absent from both readers
\* of its kind; from every reachable store, a store_message call (a
\* process_tree_insertion call) is the first for its nonce s (leaf index s)
\* exactly when it returns true, and then retrieve_by_sequence(s) returns its
\* message (insertion) and retrieve_log_block_number_by_sequence(s) its block
\* number; what the readers return for any other sequence, or for s when the
\* call is not the first, stays as it was, and is never an error.
C23_SequenceReadersReturnFirstStored ==
    /\ \A s \in Nonces :
           /\ message_retrieve_by_sequence(db, s) = Ok(NoneV)
           /\ message_retrieve_log_block_number_by_sequence(db, s) = Ok(NoneV)
    /\ \A s \in Leaves :
           /\ merkle_retrieve_by_sequence(db, s) = Ok(NoneV)
           /\ merkle_retrieve_log_block_number_by_sequence(db, s) = Ok(NoneV)
    /\ [] /\ \A m \in HyperlaneMessages, b \in Blocks :
                 LET r == store_message(db, m, b) IN
                 \A s \in Nonces :
                     LET was == message_retrieve_by_sequence(db, s)
                         first == s = m.nonce /\ was = Ok(NoneV)
                     IN  /\ was.tag = "Ok"
                         /\ (was = Ok(NoneV)) <=>
                                (message_retrieve_log_block_number_by_sequence(db, s) = Ok(NoneV))
                         /\ message_retrieve_by_sequence(r.db, s) =
                                IF first THEN Ok(Some(m)) ELSE was
                         /\ message_retrieve_log_block_number_by_sequence(r.db, s) =
                                IF first THEN Ok(Some(b))
                                ELSE message_retrieve_log_block_number_by_sequence(db, s)
                         /\ first <=> (s = m.nonce /\ r.ret = Ok(TRUE))
          /\ \A ins \in MerkleTreeInsertions, b \in Blocks :
                 LET r == process_tree_insertion(db, ins, b) IN
                 \A s \in Leaves :
                     LET was == merkle_retrieve_by_sequence(db, s)
                         first == s = ins.leaf_index /\ was = Ok(NoneV)
                     IN  /\ was.tag = "Ok"
                         /\ (was = Ok(NoneV)) <=>
                                (merkle_retrieve_log_block_number_by_sequence(db, s) = Ok(NoneV))
                         /\ merkle_retrieve_by_sequence(r.db, s) =
                                IF first THEN Ok(Some(ins)) ELSE was
                         /\ merkle_retrieve_log_block_number_by_sequence(r.db, s) =
                                IF first THEN Ok(Some(b))
                                ELSE merkle_retrieve_log_block_number_by_sequence(db, s)
                         /\ first <=> (s = ins.leaf_index /\ r.ret = Ok(TRUE))

\* C23 happens: nonce 0 was stored twice, and the readers return the first
\* message and its block number, not those of the second call, the last one;
\* leaf 0 holds an insertion; nonce 2 and leaf 1 were never ingested.
C23_Witness ==
    /\ lastOp.op = "store_message"
    /\ lastOp.ret = Ok(FALSE)
    /\ lastOp.block = 2
    /\ message_retrieve_by_sequence(db, 0) = Ok(Some([nonce |-> 0, body |-> 1]))
    /\ message_retrieve_log_block_number_by_sequence(db, 0) = Ok(Some(1))
    /\ message_retrieve_by_sequence(db, 2) = Ok(NoneV)
    /\ merkle_retrieve_by_sequence(db, 0) = Ok(Some([leaf_index |-> 0, message_id |-> 1]))
    /\ merkle_retrieve_log_block_number_by_sequence(db, 1) = Ok(NoneV)

----------------------------------------------------------------------------
(* The metrics server (rust/hyperlane-base/src/server/server.rs). *)

MaxRequests == 2
Requests == 1..MaxRequests
MetricNames == {"expected_metric_content", "messages_processed", "gas_paid"}

SUCCESS == 200
NOT_FOUND == 404

Pending == [tag |-> "Pending"]
HttpResponse(status, body) == [tag |-> "Response", status |-> status, body |-> body]

\* Server::gather: the report names every metric the registry collects, unless
\* the encoder fails; encoded tells which.
gather(srv, encoded) == IF encoded THEN Ok(srv.registry) ELSE ErrV

\* The route answering with a success status whatever gather returns.
metrics_route_always_ok(srv, encoded) ==
    LET metrics == gather(srv, encoded) IN
    IF metrics.tag = "Ok"
    THEN HttpResponse(SUCCESS, [kind |-> "metrics", names |-> metrics.val])
    ELSE HttpResponse(SUCCESS, [kind |-> "text", text |-> "Failed to encode metrics"])

\* The handler of GET /metrics that Server::run installs.
metrics_route(srv, encoded) ==
    LET metrics == gather(srv, encoded) IN
    IF metrics.tag = "Ok"
    THEN HttpResponse(SUCCESS, [kind |-> "metrics", names |-> metrics.val])
    ELSE HttpResponse(NOT_FOUND, [kind |-> "text", text |-> "Failed to encode metrics"])

\* Server::new over an empty registry; the server is not yet run.
InitServer ==
    /\ db = [p \in Prefixes |-> EmptyColumn]
    /\ lastOp = [op |-> "none"]
    /\ pc = [w \in Workers |-> "idle"]
    /\ call = [w \in Workers |-> NoneV]
    /\ local = [w \in Workers |-> NoneV]
    /\ submitted = {}
    /\ server = [registry |-> {}, running |-> FALSE,
                 responses |-> [q \in Requests |-> NoneV]]
    /\ poll = NoPoll

\* Registry::register: the registry is shared with the agent, which may
\* register metrics before and after the server is run.
RegisterMetric(name) ==
    /\ name \notin server.registry
    /\ server' = [server EXCEPT !.registry = @ \cup {name}]
    /\ UNCHANGED <<db, lastOp, pc, call, local, submitted, poll>>

\* Server::run
Run ==
    /\ ~server.running
    /\ server' = [server EXCEPT !.running = TRUE]
    /\ UNCHANGED <<db, lastOp, pc, call, local, submitted, poll>>

\* A client sends GET /metrics to the running server.
GetMetrics(q) ==
    /\ server.running
    /\ server.responses[q] = NoneV
    /\ server' = [server EXCEPT !.responses[q] = Pending]
    /\ UNCHANGED <<db, lastOp, pc, call, local, submitted, poll>>

\* The handler runs for a request and answers it.
MetricsRoute(q, encoded) ==
    /\ server.responses[q] = Pending
    /\ server' = [server EXCEPT !.responses[q] = metrics_route(server, encoded)]
    /\ UNCHANGED <<db, lastOp, pc, call, local, submitted, poll>>

NextServer ==
    \/ \E name \in MetricNames : RegisterMetric(name)
    \/ Run
    \/ \E q \in Requests : GetMetrics(q)
    \/ \E q \in Requests, encoded \in BOOLEAN : MetricsRoute(q, encoded)

\* The runtime schedules the handler of every request it has accepted.
SpecServer ==
    /\ InitServer
    /\ [][NextServer]_vars
    /\ \A q \in Requests : WF_vars(\E encoded \in BOOLEAN : MetricsRoute(q, encoded))

----------------------------------------------------------------------------
(* The order of the writes of store_message. *)

\* The message indexer storing the messages of the first two nonces, with
\* calls that are cut short at any of their writes.
NextMsgOrder ==
    \/ \E m \in FirstMessages, b \in Blocks : StoreMessage(m, b)
    \/ \E m \in FirstMessages, b \in Blocks, k \in CutPoints :
           StoreMessageInterrupted(m, b, k)

SpecMsgOrder == Init /\ [][NextMsgOrder]_vars

\* C26: in every state, those left by a call cut short between two writes
\* included, a nonce with a recorded id has the message of that id stored
\* (retrieve_message_by_nonce returns it), and a nonce with a recorded block
\* number has a recorded id and is not above the highest-seen nonce; a call cut
\* short leaves the writes store_message makes in the order id -> message,
\* nonce -> id, highest-seen nonce, nonce -> block number, up to the cut.
C26_MessageWritesInOrder ==
    /\ \A n \in StoredNonces(db) :
           LET id == retrieve_message_id_by_nonce(db, n)
               m == retrieve_message_by_nonce(db, n)
           IN  /\ id.tag = "Ok" /\ id.val.tag = "Some"
               /\ id.val.val \in DOMAIN db[MESSAGE]
               /\ m.tag = "Ok" /\ m.val.tag = "Some"
               /\ MessageId(m.val.val) = id.val.val
    /\ \A n \in DOMAIN db[MESSAGE_DISPATCHED_BLOCK_NUMBER] :
           LET highest == retrieve_highest_seen_message_nonce(db) IN
           /\ n \in StoredNonces(db)
           /\ highest.tag = "Ok" /\ highest.val.tag = "Some"
           /\ highest.val.val >= n
    /\ \A m \in HyperlaneMessages, b \in Blocks, k \in CutPoints :
           LET r == store_message_interrupted(db, m, b, k)
               hasMessage == MessageId(m) \in DOMAIN r.db[MESSAGE]
               hasId == m.nonce \in StoredNonces(r.db)
               hasBlock == m.nonce \in DOMAIN r.db[MESSAGE_DISPATCHED_BLOCK_NUMBER]
           IN  m.nonce \notin StoredNonces(db) =>
                   /\ hasBlock => r.ret = Ok(TRUE)
                   /\ hasId => hasMessage
                   /\ (k >= 1) => hasMessage
                   /\ (k >= 2) => hasId
                   /\ (r.ret = ErrV /\ hasBlock) =>
                          m.nonce \in DOMAIN db[MESSAGE_DISPATCHED_BLOCK_NUMBER]

\* C26 happens: a call for nonce 1 was cut after its first write (the message
\* is stored, the nonce has no id), and one for nonce 0 after its third: the
\* nonce has an id and a message, the cursor is set, no block number.
C26_Witness ==
    /\ lastOp.op = "store_message_interrupted"
    /\ StoredNonces(db) = {0}
    /\ retrieve_message_by_nonce(db, 0) = Ok(Some([nonce |-> 0, body |-> 1]))
    /\ retrieve_highest_seen_message_nonce(db) = Ok(Some(0))
    /\ retrieve_dispatched_block_number_by_nonce(db, 0) = Ok(NoneV)
    /\ MessageId([nonce |-> 1, body |-> 2]) \in DOMAIN db[MESSAGE]

----------------------------------------------------------------------------
(* The message id -> leaf index secondary index. *)

\* C27: in every state, those left by a process_tree_insertion call cut short
\* included, a message id x that maps to a leaf index i has an insertion stored
\* at i that carries x; and the index of a message id holds the leaf index of
\* the insertion of that id that was stored last.
C27_LeafIndexPointsAtInsertion ==
    /\ \A x \in DOMAIN db[MERKLE_LEAF_INDEX_BY_MESSAGE_ID] :
           LET i == retrieve_merkle_leaf_index_by_message_id(db, x)
               ins == retrieve_merkle_tree_insertion_by_leaf_index(db, i.val.val)
           IN  /\ i.tag = "Ok" /\ i.val.tag = "Some"
               /\ ins.tag = "Ok" /\ ins.val.tag = "Some"
               /\ ins.val.val.message_id = x
    /\ \A ins \in MerkleTreeInsertions, b \in Blocks :
           LET r == process_tree_insertion(db, ins, b) IN
           r.ret = Ok(TRUE) =>
               retrieve_merkle_leaf_index_by_message_id(r.db, ins.message_id)
                   = Ok(Some(ins.leaf_index))
    /\ ( /\ lastOp.op = "process_tree_insertion_interrupted"
         /\ retrieve_merkle_tree_insertion_by_leaf_index(db, lastOp.insertion.leaf_index)
                = Ok(Some(lastOp.insertion)) ) =>
           retrieve_merkle_leaf_index_by_message_id(db, lastOp.insertion.message_id)
               = Ok(Some(lastOp.insertion.leaf_index))

----------------------------------------------------------------------------
(* What the result of process_indexed_gas_payment reports. *)

\* C28: from every reachable store, process_indexed_gas_payment returns true
\* exactly when the call adds the payment to the total of its gas payment key,
\* and the count store_logs returns for a batch of one payment is 1 exactly
\* then.
C28_ResultReportsFoldedPayment ==
    \A ip \in IndexedGasPayments, lm \in LogMetas :
        LET key == GasPaymentKeyOf(ip.inner)
            r == process_indexed_gas_payment(db, ip, lm)
            batch == store_logs_gas_payments(db, <<[payment |-> ip, meta |-> lm]>>)
            folded == TotalOrZero(r.db, key) = AddPayments(TotalOrZero(db, key), ip.inner)
        IN  /\ r.ret.tag = "Ok"
            /\ r.ret.val <=> folded
            /\ batch.ret = Ok(IF folded THEN 1 ELSE 0)

----------------------------------------------------------------------------
(* Concurrent store_message calls on one store: every read and every write  *)
(* of a call is a step of its own, and the steps of the callers interleave. *)

\* The message a writer holds for a nonce, and the block it saw it in: two
\* writers hold different messages for the same nonce.
ObservedMessage(w, nonce) == [nonce |-> nonce, body |-> 1 + ((w - 1) % NumBodies)]
ObservedBlock(w) == BlockOfLog(w)

\* A writer calls store_message, once.
StoreMessageCall(w, nonce) ==
    /\ pc[w] = "idle"
    /\ call[w] = NoneV
    /\ pc' = [pc EXCEPT ![w] = "nonce_lookup"]
    /\ call' = [call EXCEPT ![w] = [message |-> ObservedMessage(w, nonce),
                                    dispatched_block_number |-> ObservedBlock(w)]]
    /\ UNCHANGED <<db, lastOp, local, submitted, server, poll>>

\* store_message: the lookup of the nonce; the call returns false when it is
\* recorded.
NonceLookup(w) ==
    /\ pc[w] = "nonce_lookup"
    /\ LET found == retrieve_message_id_by_nonce(db, call[w].message.nonce) IN
       IF found.tag = "Ok" /\ found.val.tag = "Some"
       THEN /\ pc' = [pc EXCEPT ![w] = "idle"]
            /\ local' = [local EXCEPT ![w] = Ok(FALSE)]
       ELSE /\ pc' = [pc EXCEPT ![w] = "message_store"]
            /\ UNCHANGED local
    /\ UNCHANGED <<db, lastOp, call, submitted, server, poll>>

\* store_message: id -> message is written.
MessageStore(w) ==
    /\ pc[w] = "message_store"
    /\ db' = store_message_by_id(db, MessageId(call[w].message), call[w].message)
    /\ pc' = [pc EXCEPT ![w] = "id_store"]
    /\ UNCHANGED <<lastOp, call, local, submitted, server, poll>>

\* store_message: nonce -> id is written.
IdStore(w) ==
    /\ pc[w] = "id_store"
    /\ db' = store_message_id_by_nonce(db, call[w].message.nonce, MessageId(call[w].message))
    /\ pc' = [pc EXCEPT ![w] = "max_read"]
    /\ UNCHANGED <<lastOp, call, local, submitted, server, poll>>

\* try_update_max_seen_message_nonce: the read of the cursor and the comparison.
MaxRead(w) ==
    /\ pc[w] = "max_read"
    /\ LET current_max == unwrap_or(retrieve_highest_seen_message_nonce(db).val, 0) IN
       pc' = [pc EXCEPT ![w] =
                 IF call[w].message.nonce >= current_max THEN "max_write" ELSE "block_store"]
    /\ UNCHANGED <<db, lastOp, call, local, submitted, server, poll>>

\* try_update_max_seen_message_nonce: the write of the cursor.
MaxWrite(w) ==
    /\ pc[w] = "max_write"
    /\ db' = store_highest_seen_message_nonce_number(db, FALSE, call[w].message.nonce)
    /\ pc' = [pc EXCEPT ![w] = "block_store"]
    /\ UNCHANGED <<lastOp, call, local, submitted, server, poll>>

\* store_message: nonce -> block number is written and the call returns true.
BlockStore(w) ==
    /\ pc[w] = "block_store"
    /\ db' = store_dispatched_block_number_by_nonce(
                 db, call[w].message.nonce, call[w].dispatched_block_number)
    /\ pc' = [pc EXCEPT ![w] = "idle"]
    /\ local' = [local EXCEPT ![w] = Ok(TRUE)]
    /\ UNCHANGED <<lastOp, call, submitted, server, poll>>

NextMsgConc ==
    \E w \in Workers :
        \/ \E nonce \in Nonces : StoreMessageCall(w, nonce)
        \/ NonceLookup(w)
        \/ MessageStore(w)
        \/ IdStore(w)
        \/ MaxRead(w)
        \/ MaxWrite(w)
        \/ BlockStore(w)

SpecMsgConc == Init /\ [][NextMsgConc]_vars

\* Every writer has made its call and the call has returned.
AllReturned == \A w \in Workers : call[w] # NoneV /\ pc[w] = "idle"

\* C29: when concurrent store_message calls for one nonce have all returned,
\* exactly one of them returned true, and the stored nonce -> id, id -> message
\* and block number are those of that call.
C29_NewlyStoredOnce ==
    \A n \in Nonces :
        (AllReturned /\ \A w \in Workers : call[w].message.nonce = n) =>
            \E w \in Workers :
                /\ local[w] = Ok(TRUE)
                /\ \A v \in Workers \ {w} : local[v] = Ok(FALSE)
                /\ retrieve_message_id_by_nonce(db, n) = Ok(Some(MessageId(call[w].message)))
                /\ retrieve_message_by_nonce(db, n) = Ok(Some(call[w].message))
                /\ retrieve_dispatched_block_number_by_nonce(db, n)
                       = Ok(Some(call[w].dispatched_block_number))

\* C30: a step of concurrent store_message calls never lowers the
\* highest-seen-nonce cursor, and when calls with distinct nonces have all
\* returned the cursor is the greatest nonce stored.
C30_CursorCorrectUnderConcurrency ==
    [][ LET before == retrieve_highest_seen_message_nonce(db)
            after == retrieve_highest_seen_message_nonce(db')
        IN  /\ before.val.tag = "Some" =>
                   after.val.tag = "Some" /\ after.val.val >= before.val.val
            /\ ( /\ AllReturned'
                 /\ \A w \in Workers, v \in Workers :
                        w # v => call[w].message.nonce # call[v].message.nonce ) =>
                   after = Ok(Some(MaxOf(StoredNonces(db')))) ]_vars

----------------------------------------------------------------------------
(* Polling (rust/chains/hyperlane-starknet/src/utils.rs). *)

\* The greatest max_poll_count the callers of assert_poll are given here.
MaxPollCount == 3

\* get_transaction_receipt's arguments to assert_poll.
RECEIPT_POLLING_TIME_MS == 100
RECEIPT_MAX_POLL_COUNT == 20

PollingTimes == {0, RECEIPT_POLLING_TIME_MS}

PANIC_MESSAGE == "Max poll count exceeded."

\* The range 0..max_poll_count iterated one element too far.
range_has_next_inclusive(poll_count, max_poll_count) ==
    poll_count <= max_poll_count

\* `for _poll_count in 0..max_poll_count`: whether the half-open range has
\* an element left once poll_count elements were taken from it.
range_has_next(poll_count, max_poll_count) ==
    poll_count < max_poll_count

\* The frame of a call: the arguments, the range's position, the values the
\* evaluations of f yielded so far, in order, and the sleeps completed.
assert_poll_frame(caller, polling_time_ms, max_poll_count) ==
    [pc |-> "for", caller |-> caller,
     polling_time_ms |-> polling_time_ms, max_poll_count |-> max_poll_count,
     poll_count |-> 0, evaluations |-> <<>>, slept_ms |-> 0]

\* A caller awaits assert_poll(f, polling_time_ms, max_poll_count); what f
\* yields is decided at each evaluation.
AssertPollCall(polling_time_ms, max_poll_count) ==
    /\ poll.pc = "idle"
    /\ poll' = assert_poll_frame("test", polling_time_ms, max_poll_count)
    /\ UNCHANGED <<db, lastOp, pc, call, local, submitted, server>>

\* get_transaction_receipt awaits assert_poll with f = "the rpc has the
\* receipt", every 100 ms, at most 20 times.
GetTransactionReceiptCall ==
    /\ poll.pc = "idle"
    /\ poll' = assert_poll_frame("get_transaction_receipt",
                                 RECEIPT_POLLING_TIME_MS, RECEIPT_MAX_POLL_COUNT)
    /\ UNCHANGED <<db, lastOp, pc, call, local, submitted, server>>

\* The range yields its next element: the loop body is entered.
ForBody ==
    /\ poll.pc = "for"
    /\ range_has_next(poll.poll_count, poll.max_poll_count)
    /\ poll' = [poll EXCEPT !.pc = "f"]
    /\ UNCHANGED <<db, lastOp, pc, call, local, submitted, server>>

\* f().await completes with `yielded`: true returns at once, false goes on
\* to the sleep.
EvaluateF(yielded) ==
    /\ poll.pc = "f"
    /\ poll' = [poll EXCEPT !.evaluations = Append(@, yielded),
                            !.pc = IF yielded THEN "returned" ELSE "sleep"]
    /\ UNCHANGED <<db, lastOp, pc, call, local, submitted, server>>

\* tokio::time::sleep(polling_time_ms) completes; the range advances.
Sleep ==
    /\ poll.pc = "sleep"
    /\ poll' = [poll EXCEPT !.slept_ms = @ + poll.polling_time_ms,
                            !.poll_count = @ + 1,
                            !.pc = "for"]
    /\ UNCHANGED <<db, lastOp, pc, call, local, submitted, server>>

\* The range is exhausted: panic!("Max poll count exceeded.").
MaxPollCountExceeded ==
    /\ poll.pc = "for"
    /\ ~range_has_next(poll.poll_count, poll.max_poll_count)
    /\ poll' = [poll EXCEPT !.pc = "panicked"] @@ [message |-> PANIC_MESSAGE]
    /\ UNCHANGED <<db, lastOp, pc, call, local, submitted, server>>

\* get_transaction_receipt, after assert_poll returned: the rpc is asked once
\* more and its answer, receipt or error, is the result.
ReceiptAfterPoll(is_ok) ==
    /\ poll.pc = "returned"
    /\ poll.caller = "get_transaction_receipt"
    /\ poll' = [poll EXCEPT !.pc = "done"] @@
               [result |-> IF is_ok THEN Ok("receipt") ELSE ErrV]
    /\ UNCHANGED <<db, lastOp, pc, call, local, submitted, server>>

\* The steps the runtime takes on its own once the call was made.
PollStep ==
    \/ ForBody
    \/ \E yielded \in BOOLEAN : EvaluateF(yielded)
    \/ Sleep
    \/ MaxPollCountExceeded
    \/ \E is_ok \in BOOLEAN : ReceiptAfterPoll(is_ok)

NextPoll ==
    \/ \E t \in PollingTimes, max \in 0..MaxPollCount : AssertPollCall(t, max)
    \/ GetTransactionReceiptCall
    \/ ForBody
    \/ \E yielded \in BOOLEAN : EvaluateF(yielded)
    \/ Sleep
    \/ MaxPollCountExceeded
    \/ \E is_ok \in BOOLEAN : ReceiptAfterPoll(is_ok)

\* The runtime keeps polling the future: every evaluation of f and every
\* sleep completes, and an enabled step is eventually taken.
SpecPoll == Init /\ [][NextPoll]_vars /\ WF_vars(PollStep)

\* assert_poll is inside its loop.
PollRunning == poll.pc \in {"for", "f", "sleep"}

\* assert_poll returned to its caller or panicked.
PollEnded == poll.pc \in {"returned", "done", "panicked"}

\* Every evaluation of f so far yielded false.
AllYieldedFalse ==
    \A i \in 1..Len(poll.evaluations) : ~poll.evaluations[i]

\* C31: assert_poll(f, t, max) always terminates; f is evaluated at most max
\* times; the call returns on the first evaluation that yields true and never
\* evaluates f after it; and it panics with "Max poll count exceeded." exactly
\* when all max evaluations yielded false, so with max = 0 it panics without
\* evaluating f.
C31_AssertPollTerminates ==
    /\ [](poll.pc # "idle" =>
            /\ Len(poll.evaluations) <= poll.max_poll_count
            /\ \A i \in 1..(Len(poll.evaluations) - 1) : ~poll.evaluations[i]
            /\ poll.pc \in {"returned", "done"} =>
                   /\ Len(poll.evaluations) >= 1
                   /\ poll.evaluations[Len(poll.evaluations)]
            /\ PollRunning => AllYieldedFalse
            /\ poll.pc = "panicked" =>
                   /\ poll.message = PANIC_MESSAGE
                   /\ Len(poll.evaluations) = poll.max_poll_count
                   /\ AllYieldedFalse
            /\ ( /\ PollEnded
                 /\ Len(poll.evaluations) = poll.max_poll_count
                 /\ AllYieldedFalse ) => poll.pc = "panicked")
    /\ [][poll.pc \in {"returned", "panicked"} =>
            poll'.evaluations = poll.evaluations]_vars
    /\ PollRunning ~> PollEnded

\* A call with max 3 whose f yielded false twice and then true: it returned
\* after the third evaluation, having slept twice.
C31_Witness ==
    /\ poll.pc = "returned"
    /\ poll.max_poll_count = 3
    /\ poll.evaluations = <<FALSE, FALSE, TRUE>>
    /\ poll.slept_ms = 2 * poll.polling_time_ms
    /\ poll.polling_time_ms = RECEIPT_POLLING_TIME_MS

----------------------------------------------------------------------------
(* The whole agent. *)

\* Every driver, indexer and worker calling into one store, storage failures
\* included, and the metrics server beside them.
Next ==
    \/ NextMsg \/ NextGas \/ NextMerkle \/ NextGasConc \/ NextWatermark
    \/ NextLogs \/ NextMsgCut \/ NextGasCut \/ NextMerkleCut
    \/ NextMsgReadFail \/ NextLogsFail \/ NextSpent \/ NextStatus
    \/ NextSeqRead \/ NextMsgOrder \/ NextMsgConc \/ NextServer \/ NextPoll

Spec == Init /\ [][Next]_vars

====
